---- MODULE Spec2Model ----
(***************************************************************************)
(* Machi Koro rules engine: the Game aggregate (Game, Player, MarketDeck,  *)
(* Money, DiceRoll), the domain services (IncomeCalculator,                *)
(* SpecialAbilityService, CardSwapService, PurchaseService) and the engine *)
(* loop runGame / executeTurn that drives them.                            *)
(*                                                                         *)
(* Seats are numbered from 0 as in the source.  A Player's establishments  *)
(* are a Map in the source; Map iteration is insertion ordered, so they    *)
(* are kept here as a sequence of <<name, count>> entries in insertion     *)
(* order.  Landmarks (a Set in the source) are a duplicate-free sequence   *)
(* in insertion order.                                                     *)
(***************************************************************************)
EXTENDS Integers, Sequences, FiniteSets, TLC

(***************************************************************************)
(* Bounds of the model                                                     *)
(***************************************************************************)
\* the step cap handed to runGame(game, maxSteps)
MaxSteps == 2

\* the number of calls made on a MarketDeck directly
MaxCalls == 4

\* the steps given to runGame for a game run beside another
MaxTurns == 3

(***************************************************************************)
(* Card catalog (CardRegistry.initialize)                                  *)
(***************************************************************************)
EstablishmentNames ==
    {"Grain Field", "Farm", "Bakery", "Cafe", "Shop", "Forest",
     "Business Center", "TV Center", "Stadium", "Cheese Factory",
     "Furniture Factory", "Mine", "Restraunt", "Apple Garden", "Fruit Market"}

LandmarkNames == {"Terminal", "Shopping Center", "Amusement Park", "Radio Tower"}

NoRule == "none"

\* registerEstablishment(name, cost, color, kind, activationNumbers, income,
\*                       multiplier, specialRule, isSingular)
Est(cost, color, kind, act, income, mult, rule, singular) ==
    [cost |-> cost, color |-> color, kind |-> kind, activationNumbers |-> act,
     income |-> income, multiplier |-> mult, specialRule |-> rule,
     isSingular |-> singular]

NoMult == [k \in {} |-> 0]

getEstablishment(name) ==
    CASE name = "Grain Field"       -> Est(1, "blue",   "grain",   {1},      1, NoMult, NoRule, FALSE)
      [] name = "Farm"              -> Est(1, "blue",   "cow",     {2},      1, NoMult, NoRule, FALSE)
      [] name = "Bakery"            -> Est(1, "green",  "bread",   {2, 3},   1, NoMult, NoRule, FALSE)
      [] name = "Cafe"              -> Est(2, "red",    "coffee",  {3},      1, NoMult, NoRule, FALSE)
      [] name = "Shop"              -> Est(2, "green",  "bread",   {4},      3, NoMult, NoRule, FALSE)
      [] name = "Forest"            -> Est(3, "blue",   "cog",     {5},      1, NoMult, NoRule, FALSE)
      [] name = "Business Center"   -> Est(8, "purple", "tower",   {6},      0, NoMult, "switch_1_non_tower_card_with_one_player", TRUE)
      [] name = "TV Center"         -> Est(7, "purple", "tower",   {6},      0, NoMult, "take_5_coins_from_one_player", TRUE)
      [] name = "Stadium"           -> Est(6, "purple", "tower",   {6},      0, NoMult, "take_2_coins_from_every_player", TRUE)
      [] name = "Cheese Factory"    -> Est(5, "green",  "factory", {7},      0, [k \in {"cow"} |-> 3], NoRule, FALSE)
      [] name = "Furniture Factory" -> Est(3, "green",  "factory", {8},      0, [k \in {"cog"} |-> 3], NoRule, FALSE)
      [] name = "Mine"              -> Est(6, "blue",   "cog",     {9},      5, NoMult, NoRule, FALSE)
      [] name = "Restraunt"         -> Est(3, "red",    "coffee",  {9, 10},  2, NoMult, NoRule, FALSE)
      [] name = "Apple Garden"      -> Est(3, "blue",   "grain",   {10},     3, NoMult, NoRule, FALSE)
      [] name = "Fruit Market"      -> Est(2, "green",  "fruit",   {11, 12}, 0, [k \in {"grain"} |-> 2], NoRule, FALSE)

\* registerLandmark(name, cost, ability): the cost is all the engine reads
getLandmark(name) ==
    CASE name = "Terminal"        -> [cost |-> 4]
      [] name = "Shopping Center" -> [cost |-> 10]
      [] name = "Amusement Park"  -> [cost |-> 16]
      [] name = "Radio Tower"     -> [cost |-> 22]

isEstablishment(name) == name \in EstablishmentNames
isLandmark(name) == name \in LandmarkNames

\* EstablishmentCard.activatesOn(roll)
activatesOn(name, roll) == roll \in getEstablishment(name).activationNumbers

\* EstablishmentCard.isPassiveCard / isHostileCard (blue / red)
isPassiveCard(name) == getEstablishment(name).color = "blue"
isHostileCard(name) == getEstablishment(name).color = "red"

(***************************************************************************)
(* Money                                                                   *)
(***************************************************************************)
Max(a, b) == IF a >= b THEN a ELSE b
Min(a, b) == IF a <= b THEN a ELSE b

\* Money.add / Money.subtract (clamped at 0) / Money.canAfford
add(amount, other) == amount + other
subtract(amount, other) == Max(0, amount - other)
canAfford(amount, cost) == amount >= cost

(***************************************************************************)
(* Generic folds                                                           *)
(***************************************************************************)
RECURSIVE SumSeq(_)
SumSeq(s) == IF s = <<>> THEN 0 ELSE Head(s) + SumSeq(Tail(s))

RECURSIVE SumSet(_, _)
SumSet(S, f) ==
    IF S = {} THEN 0
    ELSE LET x == CHOOSE y \in S : TRUE IN f[x] + SumSet(S \ {x}, f)

\* i-th element of a 0-indexed view of a sequence
SeqToSet(s) == {s[i] : i \in 1..Len(s)}

(***************************************************************************)
(* Player                                                                  *)
(***************************************************************************)
\* Player.create(id, name): 3 coins, one Grain Field, one Bakery, no landmark
createPlayer ==
    [money |-> 3,
     establishments |-> << <<"Grain Field", 1>>, <<"Bakery", 1>> >>,
     landmarks |-> <<>>]

\* Player.getEstablishmentCount(cardName)
getEstablishmentCount(player, cardName) ==
    LET e == player.establishments
        hits == {i \in 1..Len(e) : e[i][1] = cardName}
    IN IF hits = {} THEN 0 ELSE e[CHOOSE i \in hits : TRUE][2]

\* Player.hasEstablishment(cardName)
hasEstablishment(player, cardName) == getEstablishmentCount(player, cardName) > 0

\* Player.addEstablishment(cardName): Map.set keeps the key's position, a
\* new key goes last
addEstablishment(player, cardName) ==
    LET e == player.establishments
        hits == {i \in 1..Len(e) : e[i][1] = cardName}
    IN [player EXCEPT !.establishments =
          IF hits = {} THEN Append(e, <<cardName, 1>>)
          ELSE [i \in 1..Len(e) |->
                  IF i \in hits THEN <<cardName, e[i][2] + 1>> ELSE e[i]]]

\* Player.removeEstablishment(cardName): the key is deleted at count 1
removeEstablishment(player, cardName) ==
    LET e == player.establishments
        n == getEstablishmentCount(player, cardName)
    IN IF n = 0 THEN player
       ELSE IF n = 1
       THEN [player EXCEPT !.establishments =
               SelectSeq(e, LAMBDA x : x[1] # cardName)]
       ELSE [player EXCEPT !.establishments =
               [i \in 1..Len(e) |->
                  IF e[i][1] = cardName THEN <<cardName, n - 1>> ELSE e[i]]]

\* Player.getEstablishmentCards(): one entry per owned copy, in Map order
RECURSIVE Copies(_, _)
Copies(name, count) == IF count <= 0 THEN <<>> ELSE <<name>> \o Copies(name, count - 1)

RECURSIVE ExpandCards(_)
ExpandCards(e) ==
    IF e = <<>> THEN <<>>
    ELSE Copies(Head(e)[1], Head(e)[2]) \o ExpandCards(Tail(e))

getEstablishmentCards(player) == ExpandCards(player.establishments)

\* Player.getEstablishmentCountByKind(kind)
getEstablishmentCountByKind(player, kind) ==
    LET e == player.establishments
    IN SumSeq([i \in 1..Len(e) |->
                 IF getEstablishment(e[i][1]).kind = kind THEN e[i][2] ELSE 0])

\* Player.hasLandmark / buildLandmark (Set.add) / hasWon
hasLandmark(player, landmarkName) == landmarkName \in SeqToSet(player.landmarks)

\* the landmarks kept as a list: every call adds an entry
buildLandmarkAsList(player, landmarkName) ==
    [player EXCEPT !.landmarks = Append(@, landmarkName)]

buildLandmark(player, landmarkName) ==
    IF hasLandmark(player, landmarkName) THEN player
    ELSE [player EXCEPT !.landmarks = Append(@, landmarkName)]

hasWon(player) == Len(player.landmarks) = 4

\* Player.addMoney / removeMoney / canAfford
addMoney(player, amount) == [player EXCEPT !.money = add(@, amount)]
removeMoney(player, amount) == [player EXCEPT !.money = subtract(@, amount)]
playerCanAfford(player, cost) == canAfford(player.money, cost)

(***************************************************************************)
(* IncomeCalculator                                                        *)
(***************************************************************************)
\* the multiplier loop: for each [kind, multiplier] entry of the card,
\* count * multiplier with count = owner's establishments of that kind
multiplierIncome(player, name) ==
    LET m == getEstablishment(name).multiplier
    IN SumSet(DOMAIN m,
              [k \in DOMAIN m |-> getEstablishmentCountByKind(player, k) * m[k]])

\* the bonus without the check of the card's kind
shoppingCenterBonusAnyKind(player, name) ==
    IF hasLandmark(player, "Shopping Center") THEN 1 ELSE 0

\* the Shopping Center bonus: +1 for bread and coffee cards
shoppingCenterBonus(player, name) ==
    IF hasLandmark(player, "Shopping Center")
       /\ getEstablishment(name).kind \in {"bread", "coffee"}
    THEN 1 ELSE 0

\* the per-card income with the special rule of the card counted as coins
cardIncomeWithSpecialRule(player, name) ==
    getEstablishment(name).income + multiplierIncome(player, name)
        + shoppingCenterBonus(player, name)
        + (IF getEstablishment(name).specialRule = "take_5_coins_from_one_player"
           THEN 5 ELSE 0)

\* calculateIncome: income of one card copy (base, multipliers, bonus)
cardIncome(player, name) ==
    getEstablishment(name).income + multiplierIncome(player, name)
        + shoppingCenterBonus(player, name)

\* IncomeCalculator.calculateIncome(player, roll): every owned copy that
\* activates on the roll total is counted, whatever its color
calculateIncome(player, total) ==
    LET cards == getEstablishmentCards(player)
    IN SumSeq([i \in 1..Len(cards) |->
                 IF ~activatesOn(cards[i], total) THEN 0
                 ELSE cardIncome(player, cards[i])])

\* calculateRedCardIncome: income of one red card copy (base and bonus)
redCardIncome(player, name) ==
    getEstablishment(name).income + shoppingCenterBonus(player, name)

\* IncomeCalculator.calculateRedCardIncome(player, roll)
calculateRedCardIncome(player, total) ==
    LET cards == getEstablishmentCards(player)
    IN SumSeq([i \in 1..Len(cards) |->
                 IF ~isHostileCard(cards[i]) THEN 0
                 ELSE IF ~activatesOn(cards[i], total) THEN 0
                 ELSE redCardIncome(player, cards[i])])

\* IncomeCalculator.calculatePassiveIncome(player, roll): the blue cards
\* that activate on the roll, each with the per-card formula
calculatePassiveIncome(player, total) ==
    LET cards == getEstablishmentCards(player)
    IN SumSeq([i \in 1..Len(cards) |->
                 IF isPassiveCard(cards[i]) /\ activatesOn(cards[i], total)
                 THEN cardIncome(player, cards[i]) ELSE 0])

(***************************************************************************)
(* processIncome(game, diceRoll)                                           *)
(***************************************************************************)
\* the active player's branch
creditActive(player, total) ==
    LET activeIncome == calculateIncome(player, total)
    IN IF activeIncome > 0 THEN addMoney(player, activeIncome) ELSE player

\* the body of the loop over the other players
creditOther(player, total) ==
    LET passiveIncome == calculatePassiveIncome(player, total)
        redIncome == calculateRedCardIncome(player, total)
        totalIncome == passiveIncome + redIncome
    IN IF totalIncome > 0
       THEN addMoney(addMoney(player, passiveIncome), redIncome)
       ELSE player

\* for (let i = 0; i < players.length; i++) { if (i === active) continue; ... }
RECURSIVE creditOthers(_, _, _, _)
creditOthers(ps, active, total, i) ==
    IF i >= Cardinality(DOMAIN ps) THEN ps
    ELSE IF i = active THEN creditOthers(ps, active, total, i + 1)
    ELSE creditOthers([ps EXCEPT ![i] = creditOther(ps[i], total)],
                      active, total, i + 1)

processIncome(ps, active, total) ==
    creditOthers([ps EXCEPT ![active] = creditActive(ps[active], total)],
                 active, total, 0)

(***************************************************************************)
(* SpecialAbilityService                                                   *)
(***************************************************************************)
\* Game.getOtherPlayers(): the seats other than the current one, in order
RECURSIVE seatsFrom(_, _, _)
seatsFrom(i, n, skip) ==
    IF i >= n THEN <<>>
    ELSE IF i = skip THEN seatsFrom(i + 1, n, skip)
    ELSE <<i>> \o seatsFrom(i + 1, n, skip)

getOtherPlayers(ps, current) == seatsFrom(0, Cardinality(DOMAIN ps), current)

\* executeStadium: the loop over otherPlayers; acc is totalGained
RECURSIVE stadiumLoop(_, _, _)
stadiumLoop(ps, others, acc) ==
    IF others = <<>> THEN [players |-> ps, totalGained |-> acc]
    ELSE LET o == Head(others)
             payment == Min(2, ps[o].money)
         IN IF payment > 0
            THEN stadiumLoop([ps EXCEPT ![o] = removeMoney(@, payment)],
                             Tail(others), acc + payment)
            ELSE stadiumLoop(ps, Tail(others), acc)

\* Stadium crediting 2 coins per other player, whatever they could pay
executeStadiumFlat(ps, active, others) ==
    [p \in DOMAIN ps |->
        IF p = active THEN addMoney(ps[p], 2 * Len(others))
        ELSE IF p \in SeqToSet(others) THEN removeMoney(ps[p], 2)
        ELSE ps[p]]

\* Stadium debiting 2 coins from every other player's balance as a number,
\* without the min with the balance and without Money
executeStadiumOverdraw(ps, active, others) ==
    [p \in DOMAIN ps |->
        IF p = active THEN [ps[p] EXCEPT !.money = @ + 2 * Len(others)]
        ELSE IF p \in SeqToSet(others) THEN [ps[p] EXCEPT !.money = @ - 2]
        ELSE ps[p]]

executeStadium(ps, active, others) ==
    LET r == stadiumLoop(ps, others, 0)
    IN [r.players EXCEPT ![active] = addMoney(@, r.totalGained)]

\* the reduce with >= : the last of the tied players is kept
RECURSIVE richestOfLastTied(_, _, _)
richestOfLastTied(ps, rest, richest) ==
    IF rest = <<>> THEN richest
    ELSE richestOfLastTied(ps, Tail(rest),
                   IF ps[Head(rest)].money >= ps[richest].money
                   THEN Head(rest) ELSE richest)

\* otherPlayers.reduce((richest, player) =>
\*     player.money > richest.money ? player : richest)
RECURSIVE richestOf(_, _, _)
richestOf(ps, rest, richest) ==
    IF rest = <<>> THEN richest
    ELSE richestOf(ps, Tail(rest),
                   IF ps[Head(rest)].money > ps[richest].money
                   THEN Head(rest) ELSE richest)

\* TV Center asking 5 coins of the richest player, whatever the balance
executeTVCenterFlat(ps, active, others) ==
    IF Len(others) = 0 THEN ps
    ELSE LET richestPlayer == richestOf(ps, Tail(others), Head(others))
         IN [[ps EXCEPT ![richestPlayer] = removeMoney(@, 5)]
                EXCEPT ![active] = addMoney(@, 5)]

executeTVCenter(ps, active, others) ==
    IF Len(others) = 0 THEN ps
    ELSE LET richestPlayer == richestOf(ps, Tail(others), Head(others))
             payment == Min(5, ps[richestPlayer].money)
         IN IF payment > 0
            THEN [[ps EXCEPT ![richestPlayer] = removeMoney(@, payment)]
                     EXCEPT ![active] = addMoney(@, payment)]
            ELSE ps

\* SpecialAbilityService.executeSpecialAbility(card, activePlayer, otherPlayers)
executeSpecialAbility(ps, name, active, others) ==
    LET rule == getEstablishment(name).specialRule
    IN CASE rule = "take_2_coins_from_every_player" -> executeStadium(ps, active, others)
         [] rule = "take_5_coins_from_one_player" -> executeTVCenter(ps, active, others)
         [] OTHER -> ps

(***************************************************************************)
(* CardSwapService.swapCards(activePlayer, otherPlayer, give, take)        *)
(* a and o are seats; o outside the seats stands for the undefined         *)
(* otherPlayer that game.getPlayers()[otherPlayerIndex] yields             *)
(***************************************************************************)
SwapResult(success, message, ps, threw) ==
    [success |-> success, message |-> message, players |-> ps, threw |-> threw]

\* only the give card changes hands
executeSwapGiveOnly(ps, a, o, give, take) ==
    [[ps EXCEPT ![a] = removeEstablishment(@, give)]
        EXCEPT ![o] = addEstablishment(@, give)]

\* the four moves of "Execute swap", one after another
executeSwap(ps, a, o, give, take) ==
    LET s1 == [ps EXCEPT ![a] = removeEstablishment(@, give)]
        s2 == [s1 EXCEPT ![o] = addEstablishment(@, give)]
        s3 == [s2 EXCEPT ![o] = removeEstablishment(@, take)]
    IN [s3 EXCEPT ![a] = addEstablishment(@, take)]

\* swapCards without the check that the other player owns the take card
swapCardsNoTakeCheck(ps, a, o, give, take) ==
    IF ~isEstablishment(give) \/ ~isEstablishment(take)
    THEN SwapResult(FALSE, "invalid_card_name", ps, FALSE)
    ELSE IF getEstablishment(give).color = "purple"
    THEN SwapResult(FALSE, "give_is_purple", ps, FALSE)
    ELSE IF getEstablishment(take).color = "purple"
    THEN SwapResult(FALSE, "take_is_purple", ps, FALSE)
    ELSE IF ~hasEstablishment(ps[a], give)
    THEN SwapResult(FALSE, "does_not_have_give", ps, FALSE)
    ELSE IF o \notin DOMAIN ps
    THEN SwapResult(FALSE, "TypeError", ps, TRUE)
    ELSE SwapResult(TRUE, "swapped", executeSwap(ps, a, o, give, take), FALSE)

swapCards(ps, a, o, give, take) ==
    IF ~isEstablishment(give) \/ ~isEstablishment(take)
    THEN SwapResult(FALSE, "invalid_card_name", ps, FALSE)
    ELSE IF getEstablishment(give).color = "purple"
    THEN SwapResult(FALSE, "give_is_purple", ps, FALSE)
    ELSE IF getEstablishment(take).color = "purple"
    THEN SwapResult(FALSE, "take_is_purple", ps, FALSE)
    ELSE IF ~hasEstablishment(ps[a], give)
    THEN SwapResult(FALSE, "does_not_have_give", ps, FALSE)
    ELSE IF o \notin DOMAIN ps
    THEN SwapResult(FALSE, "TypeError", ps, TRUE)
    ELSE IF ~hasEstablishment(ps[o], take)
    THEN SwapResult(FALSE, "does_not_have_take", ps, FALSE)
    ELSE SwapResult(TRUE, "swapped", executeSwap(ps, a, o, give, take), FALSE)

(***************************************************************************)
(* MarketDeck                                                              *)
(***************************************************************************)
\* DEFAULT_CARD_QUANTITIES
DefaultQuantity(name) ==
    IF name \in {"Business Center", "TV Center", "Stadium"} THEN 5 ELSE 6

\* MarketDeck.create(id)
createMarketDeck == [name \in EstablishmentNames |-> DefaultQuantity(name)]

\* MarketDeck.isAvailable / getAvailableQuantity / purchase / restock
getAvailableQuantity(market, name) ==
    IF name \in DOMAIN market THEN market[name] ELSE 0

isAvailable(market, name) == getAvailableQuantity(market, name) > 0

\* purchase without the availability check
marketPurchaseUnchecked(market, name) == [market EXCEPT ![name] = @ - 1]

marketPurchase(market, name) ==
    IF ~isAvailable(market, name) THEN market
    ELSE [market EXCEPT ![name] = @ - 1]

\* what MarketDeck.purchase returns: the card, or undefined
marketPurchaseReturns(market, name) ==
    IF ~isAvailable(market, name) THEN "undefined" ELSE "card"

\* MarketDeck.restock(cardName, quantity): throws on a negative quantity
restock(market, name, quantity) ==
    IF quantity < 0
    THEN [market |-> market, error |-> "Restock quantity cannot be negative"]
    ELSE [market |-> [market EXCEPT ![name] = getAvailableQuantity(market, name) + quantity],
          error |-> ""]

(***************************************************************************)
(* PurchaseService                                                         *)
(***************************************************************************)
PurchaseResult(success, message, player, market) ==
    [success |-> success, message |-> message, player |-> player,
     market |-> market]

\* the market is decremented before the checks
purchaseEstablishmentEagerMarket(player, cardName, market) ==
    LET card == getEstablishment(cardName)
        taken == marketPurchase(market, cardName)
    IN IF ~isAvailable(market, cardName)
       THEN PurchaseResult(FALSE, "out_of_stock", player, market)
       ELSE IF ~playerCanAfford(player, card.cost)
       THEN PurchaseResult(FALSE, "cannot_afford", player, taken)
       ELSE IF card.isSingular /\ hasEstablishment(player, cardName)
       THEN PurchaseResult(FALSE, "already_own_singular", player, taken)
       ELSE PurchaseResult(TRUE, "purchased",
                addEstablishment(removeMoney(player, card.cost), cardName),
                taken)

\* the singular constraint is not checked
purchaseEstablishmentNoSingularCheck(player, cardName, market) ==
    LET card == getEstablishment(cardName)
    IN IF ~isAvailable(market, cardName)
       THEN PurchaseResult(FALSE, "out_of_stock", player, market)
       ELSE IF ~playerCanAfford(player, card.cost)
       THEN PurchaseResult(FALSE, "cannot_afford", player, market)
       ELSE PurchaseResult(TRUE, "purchased",
                addEstablishment(removeMoney(player, card.cost), cardName),
                marketPurchase(market, cardName))

\* the card is handed over twice
purchaseEstablishmentTwoCopies(player, cardName, market) ==
    LET card == getEstablishment(cardName)
    IN IF ~isAvailable(market, cardName)
       THEN PurchaseResult(FALSE, "out_of_stock", player, market)
       ELSE IF ~playerCanAfford(player, card.cost)
       THEN PurchaseResult(FALSE, "cannot_afford", player, market)
       ELSE IF card.isSingular /\ hasEstablishment(player, cardName)
       THEN PurchaseResult(FALSE, "already_own_singular", player, market)
       ELSE PurchaseResult(TRUE, "purchased",
                addEstablishment(addEstablishment(removeMoney(player, card.cost),
                                                  cardName), cardName),
                marketPurchase(market, cardName))

\* PurchaseService.purchaseEstablishment(player, cardName, market)
purchaseEstablishment(player, cardName, market) ==
    LET card == getEstablishment(cardName)
    IN IF ~isAvailable(market, cardName)
       THEN PurchaseResult(FALSE, "out_of_stock", player, market)
       ELSE IF ~playerCanAfford(player, card.cost)
       THEN PurchaseResult(FALSE, "cannot_afford", player, market)
       ELSE IF card.isSingular /\ hasEstablishment(player, cardName)
       THEN PurchaseResult(FALSE, "already_own_singular", player, market)
       ELSE PurchaseResult(TRUE, "purchased",
                addEstablishment(removeMoney(player, card.cost), cardName),
                marketPurchase(market, cardName))

\* the landmark is built without the debit
purchaseLandmarkNoDebit(player, landmarkName, market) ==
    LET landmark == getLandmark(landmarkName)
    IN IF hasLandmark(player, landmarkName)
       THEN PurchaseResult(FALSE, "already_built", player, market)
       ELSE IF ~playerCanAfford(player, landmark.cost)
       THEN PurchaseResult(FALSE, "cannot_afford", player, market)
       ELSE PurchaseResult(TRUE, "built",
                buildLandmark(player, landmarkName), market)

\* PurchaseService.purchaseLandmark(player, landmarkName)
purchaseLandmark(player, landmarkName, market) ==
    LET landmark == getLandmark(landmarkName)
    IN IF hasLandmark(player, landmarkName)
       THEN PurchaseResult(FALSE, "already_built", player, market)
       ELSE IF ~playerCanAfford(player, landmark.cost)
       THEN PurchaseResult(FALSE, "cannot_afford", player, market)
       ELSE PurchaseResult(TRUE, "built",
                buildLandmark(removeMoney(player, landmark.cost), landmarkName),
                market)

\* PurchaseService.purchase(player, cardName, market): establishment first
\* (getEstablishment throws on another name, which is caught), then
\* landmark; an out-of-stock establishment falls through to the landmark try
purchase(player, cardName, market) ==
    LET asEstablishment == purchaseEstablishment(player, cardName, market)
    IN IF isEstablishment(cardName)
          /\ (asEstablishment.success \/ asEstablishment.message # "out_of_stock")
       THEN asEstablishment
       ELSE IF isLandmark(cardName)
       THEN purchaseLandmark(player, cardName, market)
       ELSE PurchaseResult(FALSE, "unknown_card", player, market)

(***************************************************************************)
(* DiceRoll                                                                *)
(***************************************************************************)
Faces == 1..6

\* rollDice(numDice): numDice faces, each 1..6
rollDice(n) == [1..n -> Faces]

\* rolls.slice(0, numDice)
slice(rolls, n) == SubSeq(rolls, 1, Min(n, Len(rolls)))

\* DiceRoll.of(dice): total is the sum of the faces
DiceRollOf(dice) == [total |-> SumSeq(dice), dice |-> dice]

\* the DiceRoll constructor's checks
validDiceRoll(dice) ==
    /\ Len(dice) >= 1 /\ Len(dice) <= 2
    /\ \A k \in 1..Len(dice) : dice[k] >= 1 /\ dice[k] <= 6

NoRoll == [total |-> 0, dice |-> <<>>]

(***************************************************************************)
(* Game                                                                    *)
(***************************************************************************)
\* winner: Player | null; -1 stands for null
NoWinner == -1

\* start() without its status guard
startAnyStatus(st) == [status |-> "in_progress", error |-> ""]

\* Game.start(): throws unless the status is waiting
start(st) ==
    IF st # "waiting"
    THEN [status |-> st, error |-> "Game has already started"]
    ELSE [status |-> "in_progress", error |-> ""]

\* endTurn() passing over the next seat
endTurnSkipsSeat(st, w, cur, ps) ==
    [status |-> st, winner |-> w,
     currentPlayerIndex |-> (cur + 2) % Cardinality(DOMAIN ps),
     error |-> ""]

\* endTurn() without the status guard
endTurnAnyStatus(st, w, cur, ps) ==
    [status |-> st, winner |-> w,
     currentPlayerIndex |-> (cur + 1) % Cardinality(DOMAIN ps),
     error |-> ""]

\* endTurn() finishing the game without recording the winner
endTurnNoWinner(st, w, cur, ps) ==
    IF st # "in_progress"
    THEN [status |-> st, winner |-> w, currentPlayerIndex |-> cur,
          error |-> "Game is not in progress"]
    ELSE IF cur \notin DOMAIN ps
    THEN [status |-> st, winner |-> w, currentPlayerIndex |-> cur,
          error |-> "TypeError"]
    ELSE IF hasWon(ps[cur])
    THEN [status |-> "finished", winner |-> w,
          currentPlayerIndex |-> cur, error |-> ""]
    ELSE [status |-> st, winner |-> w,
          currentPlayerIndex |-> (cur + 1) % Cardinality(DOMAIN ps),
          error |-> ""]

\* Game.endTurn(): throws unless in progress; records the winner and
\* finishes when the current player has won; otherwise moves to the next seat
endTurn(st, w, cur, ps) ==
    IF st # "in_progress"
    THEN [status |-> st, winner |-> w, currentPlayerIndex |-> cur,
          error |-> "Game is not in progress"]
    ELSE IF cur \notin DOMAIN ps
    THEN \* players[currentPlayerIndex] is undefined: hasWon() of undefined
         [status |-> st, winner |-> w, currentPlayerIndex |-> cur,
          error |-> "TypeError"]
    ELSE IF hasWon(ps[cur])
    THEN [status |-> "finished", winner |-> cur,
          currentPlayerIndex |-> cur, error |-> ""]
    ELSE [status |-> st, winner |-> w,
          currentPlayerIndex |-> (cur + 1) % Cardinality(DOMAIN ps),
          error |-> ""]

(***************************************************************************)
(* Strategy answers (GameStrategy.roll / reroll / buy / swap)              *)
(***************************************************************************)
\* roll(game): the number of dice asked for
RollChoices == {1, 2}

\* reroll(previousTotal, game): 0 stands for null (no reroll)
RerollChoices == {0, 1, 2}

\* buy(game): "none" stands for null (skip)
BuyChoices == {"none", "Cafe", "Stadium", "Terminal", "Shopping Center"}

\* swap(game): {give, take, otherPlayerIndex}; the SwapDecisions of a game
\* with n seats include the index n, which is no seat
SwapGive == {"Bakery", "Cafe", "Stadium"}
SwapTake == {"Grain Field", "Cafe", "TV Center"}
SwapDecisions(n) ==
    [give : SwapGive, take : SwapTake, otherPlayerIndex : 0..n]

(***************************************************************************)
(* Games the runs start from: Game.create(id, names) followed by the       *)
(* seeding the tests do on the players before the game starts (addMoney,   *)
(* addEstablishment, buildLandmark)                                        *)
(***************************************************************************)
RECURSIVE addAll(_, _)
addAll(player, names) ==
    IF names = <<>> THEN player
    ELSE addAll(addEstablishment(player, Head(names)), Tail(names))

RECURSIVE buildAll(_, _)
buildAll(player, names) ==
    IF names = <<>> THEN player
    ELSE buildAll(buildLandmark(player, Head(names)), Tail(names))

seeded(money, ests, lms) ==
    [buildAll(addAll(createPlayer, ests), lms) EXCEPT !.money = money]

Seats(seq) == [k \in 0..(Len(seq) - 1) |-> seq[k + 1]]

\* cows and a Cheese Factory, two dice
RanchGame ==
    Seats(<< seeded(3, <<"Farm", "Farm", "Cheese Factory">>, <<"Terminal">>),
             seeded(3, <<"Farm", "Restraunt">>, <<>>) >>)

\* MarketDeck.createWithQuantities: the ranch game is played on a market
\* whose Stadiums are sold out, the other games on the default market
InitialMarket(ps) ==
    IF ps = RanchGame THEN [createMarketDeck EXCEPT !["Stadium"] = 0]
    ELSE createMarketDeck

InitialGames ==
    { \* a fresh 2-player game
      Seats(<< createPlayer, createPlayer >>),
      \* red cards on three seats, the first seat short of coins
      Seats(<< seeded(2, <<"Cafe">>, <<>>),
               seeded(3, <<"Cafe", "Cafe">>, <<"Shopping Center">>),
               seeded(3, <<"Cafe">>, <<>>) >>),
      RanchGame,
      \* the three purple cards against a poor and a rich seat
      Seats(<< seeded(3, <<"Stadium", "TV Center", "Business Center">>,
                      <<"Terminal", "Amusement Park">>),
               seeded(1, <<>>, <<>>),
               seeded(10, <<"Cafe">>, <<>>) >>),
      \* a TV Center on the middle seat, the other seats level on coins, the
      \* first of them with a Radio Tower and no Terminal
      Seats(<< seeded(3, <<>>, <<"Radio Tower">>),
               seeded(3, <<"TV Center">>, <<>>),
               createPlayer >>),
      \* one landmark short of winning, with two dice, reroll and bonus roll
      Seats(<< seeded(10, <<>>, <<"Terminal", "Amusement Park", "Radio Tower">>),
               createPlayer >>)
    }

(***************************************************************************)
(* Game.create, Game.createWithState                                       *)
(***************************************************************************)
GameOf(ps, m, cpi, st, w, roll) ==
    [players |-> ps, marketDeck |-> m, currentPlayerIndex |-> cpi,
     status |-> st, winner |-> w, lastDiceRoll |-> roll]

\* the constructor's only check: 2 to 4 players
validPlayerCount(ps) ==
    Cardinality(DOMAIN ps) >= 2 /\ Cardinality(DOMAIN ps) <= 4

\* Game.create(id, playerNames): n names
create(n) ==
    GameOf([k \in 0..(n - 1) |-> createPlayer], createMarketDeck, 0, "waiting",
           NoWinner, NoRoll)

\* Game.createWithState: the arguments go to the constructor as they are
createWithState(ps, m, cpi, st, w, roll) == GameOf(ps, m, cpi, st, w, roll)

\* the id Game.create gives the player of a seat: `player-${index + 1}`
playerId(seat) == seat + 1

(***************************************************************************)
(* StrategyRegistry and the strategies                                     *)
(***************************************************************************)
Strategies == {"defaultStrategy", "grainStrategy", "shopStrategy"}

\* strategies.get(playerId) of an id never registered: undefined
NoStrategy == "none"

\* the names initGame gives to Game.create: 'A', 'B', 'C'
SessionSeats == 0..2

PlayerIds == {playerId(seat) : seat \in SessionSeats}

\* new StrategyRegistry(): an empty Map
EmptyRegistry == [id \in PlayerIds |-> NoStrategy]

\* StrategyRegistry.register(playerId, strategy): strategies.set
register(registry, id, strategy) == [registry EXCEPT ![id] = strategy]

\* StrategyRegistry.get(playerId)
get(registry, id) == registry[id]

\* for (i...) strategyRegistry.register(players[i].id, strategies[i]):
\* the loop awaits nothing
RECURSIVE registerAll(_, _, _)
registerAll(registry, mine, seat) ==
    IF seat \notin DOMAIN mine THEN registry
    ELSE registerAll(register(registry, playerId(seat), mine[seat]), mine, seat + 1)

\* utils.canBuy(cardName, player, game)
canBuy(cardName, player, market) ==
    IF isLandmark(cardName)
    THEN ~hasLandmark(player, cardName)
         /\ canAfford(player.money, getLandmark(cardName).cost)
    ELSE IF isEstablishment(cardName)
    THEN /\ isAvailable(market, cardName)
         /\ canAfford(player.money, getEstablishment(cardName).cost)
         /\ ~(getEstablishment(cardName).color = "purple"
              /\ hasEstablishment(player, cardName))
    ELSE FALSE

\* for (const card of cards) if (canBuy(card, player, game)) return card
firstBuyable(cards, player, market) ==
    LET hits == {k \in 1..Len(cards) : canBuy(cards[k], player, market)}
    IN IF hits = {} THEN "none"
       ELSE cards[CHOOSE k \in hits : \A h \in hits : k <= h]

\* defaultStrategy.buy
defaultBuy(player, market) ==
    firstBuyable(<<"Terminal", "Shopping Center", "Amusement Park", "Radio Tower",
                   "Apple Garden", "Bakery", "Business Center", "Cafe",
                   "Cheese Factory", "Farm", "Forest", "Fruit Market",
                   "Furniture Factory", "Grain Field", "Mine", "Restraunt",
                   "Shop", "Stadium", "TV Center">>, player, market)

\* grainStrategy.buy
grainBuy(player, market) ==
    IF canBuy("Cheese Factory", player, market)
       /\ getEstablishmentCount(player, "Cheese Factory") < 1
    THEN "Cheese Factory"
    ELSE LET card == firstBuyable(<<"Terminal", "Shopping Center",
                                    "Amusement Park", "Radio Tower",
                                    "Grain Field", "Fruit Market",
                                    "Apple Garden">>, player, market)
         IN IF card # "none" THEN card ELSE defaultBuy(player, market)

\* shopStrategy.buy
shopBuy(player, market) ==
    IF canBuy("Shop", player, market) /\ getEstablishmentCount(player, "Shop") < 6
    THEN "Shop"
    ELSE IF canBuy("Cafe", player, market)
            /\ getEstablishmentCount(player, "Cafe") < 0
    THEN "Cafe"
    ELSE firstBuyable(<<"Shopping Center", "Terminal", "Amusement Park",
                        "Radio Tower">>, player, market)

\* strategy.buy(game)
strategyBuy(strategy, player, market) ==
    CASE strategy = "grainStrategy" -> grainBuy(player, market)
      [] strategy = "shopStrategy"  -> shopBuy(player, market)
      [] OTHER                      -> defaultBuy(player, market)

\* utils.canRollTwoDice(player)
canRollTwoDice(player) == hasLandmark(player, "Terminal")

\* strategy.roll(game): shopStrategy answers 1, the others follow
\* defaultStrategy
strategyRoll(strategy, player) ==
    IF strategy = "shopStrategy" THEN 1
    ELSE IF canRollTwoDice(player) THEN 2 ELSE 1

(***************************************************************************)
(* Games run side by side: initGame / runGame called while another call    *)
(* is suspended at an await                                                *)
(***************************************************************************)
Games == {1, 2}

\* the strategies one call registers for its players: initGame's
\* strategies[i % strategies.length], or one strategy for every player
\* (players.forEach(p => strategyRegistry.register(p.id, strategy)))
Assignments ==
    {[seat \in SessionSeats |->
        <<"defaultStrategy", "grainStrategy", "shopStrategy">>[seat + 1]]}
    \cup {[seat \in SessionSeats |-> s] : s \in {"grainStrategy", "shopStrategy"}}

\* the faces a game's dice show, turn after turn: every game has a source
\* of randomness of its own
DiceScripts ==
    { << <<2, 2>>, <<1, 5>>, <<3, 4>> >>,
      << <<1, 1>>, <<3, 3>>, <<2, 6>> >> }

scriptedRoll(script, step) == script[(step % Len(script)) + 1]

\* Game.create('game-1', playerNames), nothing registered, runGame not called
NewSession ==
    [pc |-> "created",
     game |-> create(Cardinality(SessionSeats)),
     mine |-> [seat \in SessionSeats |-> NoStrategy],
     dice |-> << <<1, 1>> >>,
     strategy |-> NoStrategy,
     i |-> 0]

(***************************************************************************)
(* The State of the original engine (game.ts, utils.ts): players with a    *)
(* budget, a deck of counts and an amusementDeck of flags, the shared deck  *)
(* and activePlayerIndex                                                    *)
(***************************************************************************)
\* the amusementDeck with no landmark built
startingAmusementDeck ==
    << <<"Terminal", FALSE>>, <<"Shopping Center", FALSE>>,
       <<"Amusement Park", FALSE>>, <<"Radio Tower", FALSE>> >>

\* convertFromDomainPlayer(domainPlayer, oldPlayer): the budget, the deck
\* rebuilt from the establishments, the flags of the landmarks
convertFromDomainPlayer(domainPlayer) ==
    [budget |-> domainPlayer.money,
     deck |-> domainPlayer.establishments,
     amusementDeck |->
        [k \in 1..Len(startingAmusementDeck) |->
            <<startingAmusementDeck[k][1],
              hasLandmark(domainPlayer, startingAmusementDeck[k][1])>>]]

\* the answer null of strategy.swap
NullSwap == [give |-> "", take |-> "", otherPlayerIndex |-> -1]

\* createGame(players) on the players of the seating and on the deck m,
\* before runGame is called: activePlayerIndex -1.  Beside the State the
\* record holds where runGame stands (pc, i, nDice, res, rolls), what the
\* process under way has yet to do (pending, with the total of its
\* diceRoll, the answer strategy.swap gives it, whether runGame awaits it
\* and the times it has resumed beside runGame), the answer of
\* strategy.buy (purchase) and the last step
createState(ps, m) ==
    [players |-> [p \in DOMAIN ps |-> convertFromDomainPlayer(ps[p])],
     deck |-> m,
     activePlayerIndex |-> -1,
     pc |-> "idle", i |-> 0, nDice |-> 0, res |-> 0, rolls |-> <<>>,
     pending |-> <<>>, awaited |-> TRUE, total |-> 0, swap |-> NullSwap,
     resumptions |-> 0, purchase |-> "none", last |-> "none"]

(***************************************************************************)
(* State                                                                   *)
(***************************************************************************)
VARIABLES
    players,            \* Game.players: seat -> [money, establishments, landmarks]
    marketDeck,         \* Game.marketDeck quantities
    currentPlayerIndex, \* Game.currentPlayerIndex
    status,             \* Game.status
    winner,             \* Game.winner (the winner's seat, or NoWinner)
    lastDiceRoll,       \* Game.lastDiceRoll (NoRoll for null)
    pc,                 \* where runGame / executeTurn stands
    i,                  \* runGame's loop counter
    numDice,            \* executeTurn: numDice
    rolls,              \* executeTurn: rolls
    diceRoll,           \* executeTurn: the DiceRoll being resolved
    purpleCards,        \* processSpecialAbilities: purple cards still to resolve
    bonus,              \* executeTurn: the bonus roll has been made
    gameOver,           \* runGame: executeTurn returned true
    turns,              \* history: executeTurn calls of the current run
    pre,                \* history: players and market before the last operation
    last,               \* history: the last operation of the turn
    result,             \* history: the message of the last service result
    answer,             \* history: the last answer of the active player's strategy
    resolutions,        \* history: rolls resolved (processIncome calls) in the turn
    ledger,             \* history: the market at creation and the calls made on it
    strategyRegistry,   \* the strategyRegistry singleton: player id -> strategy
    sessions,           \* the games started side by side, each with its own Game
    error,              \* history: the last error thrown ("" if none)
    state               \* the State of the original engine and where its runGame stands

game == <<players, marketDeck, currentPlayerIndex, status, winner>>
turn == <<numDice, rolls, diceRoll, purpleCards, bonus>>
hist == <<turns, pre, last, result, answer, resolutions, error>>
\* what the steps of a run leave alone, the purchase apart: executeTurn
\* never calls game.recordDiceRoll, and the ledger follows the calls of
\* MarketDeck.purchase and MarketDeck.restock
\* the registry and the games run side by side
sideBySide == <<strategyRegistry, sessions>>
apart == <<lastDiceRoll, ledger, sideBySide, state>>
vars == <<players, marketDeck, currentPlayerIndex, status, winner, pc, i,
          numDice, rolls, diceRoll, purpleCards, bonus, gameOver, turns, pre,
          last, result, answer, resolutions, error, lastDiceRoll, ledger,
          strategyRegistry, sessions, state>>

\* the answers of GameStrategy.roll / reroll / buy / swap, as one record
NoAnswer ==
    [call |-> "none", dice |-> 0, card |-> "", take |-> "", otherPlayerIndex |-> 0]

Snapshot(ps, m) ==
    [players |-> ps, market |-> m, active |-> currentPlayerIndex]

\* the ledger of a market: nothing restocked, nothing purchased; calls
\* counts the calls made on the entities directly, outside a run
NewLedger(m) ==
    [initial |-> m,
     restocked |-> [c \in DOMAIN m |-> 0],
     purchased |-> [c \in DOMAIN m |-> 0],
     calls |-> 0]

\* MarketDeck.purchase(name) returned a card
recordPurchase(l, name) == [l EXCEPT !.purchased[name] = @ + 1]

\* MarketDeck.restock(name, quantity) returned
recordRestock(l, name, quantity) == [l EXCEPT !.restocked[name] = @ + quantity]

Init ==
    /\ players \in InitialGames
    /\ marketDeck = InitialMarket(players)
    /\ currentPlayerIndex = 0
    /\ status = "waiting"
    /\ winner = NoWinner
    /\ pc = "idle"
    /\ i = 0
    /\ numDice = 0
    /\ rolls = <<>>
    /\ diceRoll = NoRoll
    /\ purpleCards = <<>>
    /\ bonus = FALSE
    /\ gameOver = FALSE
    /\ turns = 0
    /\ pre = Snapshot(players, marketDeck)
    /\ last = "none"
    /\ result = ""
    /\ answer = NoAnswer
    /\ resolutions = 0
    /\ error = ""
    /\ lastDiceRoll = NoRoll
    /\ ledger = NewLedger(marketDeck)
    /\ strategyRegistry = EmptyRegistry
    /\ sessions = [g \in Games |-> NewSession]
    /\ state = createState(players, marketDeck)

(***************************************************************************)
(* runGame(game, maxSteps) and executeTurn(game, maxSteps, currentStep)    *)
(***************************************************************************)
Stopped == pc \in {"idle", "done", "thrown"}

EndTurnLocals ==
    /\ numDice' = 0
    /\ rolls' = <<>>
    /\ diceRoll' = NoRoll
    /\ purpleCards' = <<>>
    /\ bonus' = FALSE

\* the loop condition off by one
loopContinuesInclusive(step, maxSteps) == step <= maxSteps

\* for (let i = 0; i < maxSteps; i++)
loopContinues(step, maxSteps) == step < maxSteps

\* the requested count taken as it is
decideNumDiceAsRequested(player, requested) == requested

\* if (!canRollTwo && numDice > 1) numDice = 1
decideNumDice(player, requested) ==
    IF ~hasLandmark(player, "Terminal") /\ requested > 1 THEN 1 ELSE requested

\* the purple cards of the active player, whatever the total
activatedPurpleCardsAnyRoll(player, total) ==
    SelectSeq(getEstablishmentCards(player),
              LAMBDA c : getEstablishment(c).color = "purple")

\* the purple cards of the active player that activate on the total
activatedPurpleCards(player, total) ==
    SelectSeq(getEstablishmentCards(player),
              LAMBDA c : getEstablishment(c).color = "purple"
                         /\ activatesOn(c, total))

\* the doubles check without the count of dice
rollsAgainAnyCount(player, rs, n) ==
    /\ Len(rs) >= 2 /\ rs[1] = rs[2]
    /\ hasLandmark(player, "Amusement Park")

\* rolls[0] === rolls[1] && numDice === 2 && player.hasLandmark('Amusement Park')
rollsAgain(player, rs, n) ==
    /\ Len(rs) >= 2 /\ rs[1] = rs[2]
    /\ n = 2
    /\ hasLandmark(player, "Amusement Park")

\* the check for doubles made again after a bonus roll
bonusRollDueChained(player, rs, n, made) == rollsAgain(player, rs, n)

\* the check for doubles is an if after the first resolution: it is made
\* once in a turn, not again after the bonus roll it grants
bonusRollDue(player, rs, n, made) == ~made /\ rollsAgain(player, rs, n)

\* executeTurn never reporting the game over
executeTurnNeverOver(player) == FALSE

\* the value executeTurn returns: the win check after the purchase
executeTurnResult(player) == hasWon(player)

\* runGame is called: game.start(), then the loop
RunGame ==
    /\ Stopped
    /\ LET s == start(status)
       IN /\ status' = s.status
          /\ error' = s.error
          /\ pc' = IF s.error # "" THEN "thrown" ELSE "loop"
          /\ i' = IF s.error # "" THEN i ELSE 0
          /\ turns' = IF s.error # "" THEN turns ELSE 0
          /\ gameOver' = IF s.error # "" THEN gameOver ELSE FALSE
    /\ UNCHANGED <<players, marketDeck, currentPlayerIndex, winner, turn,
                   pre, last, result, answer, resolutions>>
    /\ UNCHANGED apart

\* the loop ends at the step cap
LoopExit ==
    /\ pc = "loop"
    /\ ~loopContinues(i, MaxSteps)
    /\ pc' = "done"
    /\ UNCHANGED <<game, i, turn, gameOver, hist>>
    /\ UNCHANGED apart

\* executeTurn begins: strategy.roll, then rollDice(numDice)
Roll ==
    /\ pc = "loop"
    /\ loopContinues(i, MaxSteps)
    /\ \E requested \in RollChoices :
         LET n == decideNumDice(players[currentPlayerIndex], requested)
         IN /\ numDice' = n
            /\ answer' = [NoAnswer EXCEPT !.call = "roll", !.dice = requested]
            /\ \E r \in rollDice(n) : rolls' = r
    /\ pc' = IF hasLandmark(players[currentPlayerIndex], "Radio Tower")
             THEN "reroll" ELSE "income"
    /\ turns' = turns + 1
    /\ UNCHANGED <<game, i, diceRoll, purpleCards, bonus, gameOver,
                   pre, last, result, resolutions, error>>
    /\ UNCHANGED apart

\* Radio Tower: strategy.reroll, then rollDice(rerollDice) if it is truthy
Reroll ==
    /\ pc = "reroll"
    /\ \E rerollDice \in RerollChoices :
         /\ answer' = [NoAnswer EXCEPT !.call = "reroll", !.dice = rerollDice]
         /\ IF rerollDice # 0
            THEN \E r \in rollDice(rerollDice) : rolls' = r
            ELSE rolls' = rolls
    /\ pc' = "income"
    /\ UNCHANGED <<game, i, numDice, diceRoll, purpleCards, bonus, gameOver,
                   turns, pre, last, result, resolutions, error>>
    /\ UNCHANGED apart

\* DiceRoll.of(rolls.slice(0, numDice)); processIncome(game, diceRoll)
Income ==
    /\ pc = "income"
    /\ LET d == DiceRollOf(slice(rolls, numDice))
           ps == processIncome(players, currentPlayerIndex, d.total)
       IN /\ diceRoll' = d
          /\ players' = ps
          /\ purpleCards' = activatedPurpleCards(ps[currentPlayerIndex], d.total)
    /\ pre' = Snapshot(players, marketDeck)
    /\ last' = "income"
    /\ resolutions' = resolutions + 1
    /\ pc' = "special"
    /\ UNCHANGED <<marketDeck, currentPlayerIndex, status, winner, i, numDice,
                   rolls, bonus, gameOver, turns, result, answer, error>>
    /\ UNCHANGED apart

\* processSpecialAbilities: Stadium or TV Center
Ability ==
    /\ pc = "special"
    /\ purpleCards # <<>>
    /\ getEstablishment(Head(purpleCards)).specialRule
         \in {"take_2_coins_from_every_player", "take_5_coins_from_one_player"}
    /\ players' = executeSpecialAbility(players, Head(purpleCards),
                      currentPlayerIndex,
                      getOtherPlayers(players, currentPlayerIndex))
    /\ purpleCards' = Tail(purpleCards)
    /\ pre' = Snapshot(players, marketDeck)
    /\ last' = Head(purpleCards)
    /\ UNCHANGED <<marketDeck, currentPlayerIndex, status, winner, pc, i,
                   numDice, rolls, diceRoll, bonus, gameOver, turns, result, answer,
                   resolutions, error>>
    /\ UNCHANGED apart

\* processSpecialAbilities: Business Center, the strategy declines
SwapDeclined ==
    /\ pc = "special"
    /\ purpleCards # <<>>
    /\ getEstablishment(Head(purpleCards)).specialRule
         = "switch_1_non_tower_card_with_one_player"
    /\ purpleCards' = Tail(purpleCards)
    /\ pre' = Snapshot(players, marketDeck)
    /\ last' = "swap"
    /\ result' = "declined"
    /\ answer' = [NoAnswer EXCEPT !.call = "swap"]
    /\ UNCHANGED <<game, pc, i, numDice, rolls, diceRoll, bonus, gameOver,
                   turns, resolutions, error>>
    /\ UNCHANGED apart

\* processSpecialAbilities: Business Center, the strategy answers a swap
Swap ==
    /\ pc = "special"
    /\ purpleCards # <<>>
    /\ getEstablishment(Head(purpleCards)).specialRule
         = "switch_1_non_tower_card_with_one_player"
    /\ \E d \in SwapDecisions(Cardinality(DOMAIN players)) :
         LET r == swapCards(players, currentPlayerIndex, d.otherPlayerIndex,
                            d.give, d.take)
         IN /\ players' = r.players
            /\ result' = r.message
            /\ answer' = [NoAnswer EXCEPT !.call = "swap", !.card = d.give,
                                          !.take = d.take,
                                          !.otherPlayerIndex = d.otherPlayerIndex]
            /\ pc' = IF r.threw THEN "thrown" ELSE pc
            /\ error' = IF r.threw THEN r.message ELSE error
    /\ purpleCards' = Tail(purpleCards)
    /\ pre' = Snapshot(players, marketDeck)
    /\ last' = "swap"
    /\ UNCHANGED <<marketDeck, currentPlayerIndex, status, winner, i, numDice,
                   rolls, diceRoll, bonus, gameOver, turns, resolutions>>
    /\ UNCHANGED apart

\* doubles with Amusement Park: one more rollDice(numDice), processIncome
BonusRoll ==
    /\ pc = "special"
    /\ purpleCards = <<>>
    /\ bonusRollDue(players[currentPlayerIndex], rolls, numDice, bonus)
    /\ \E r \in rollDice(numDice) :
         LET d == DiceRollOf(r)
             ps == processIncome(players, currentPlayerIndex, d.total)
         IN /\ diceRoll' = d
            /\ players' = ps
            /\ purpleCards' = activatedPurpleCards(ps[currentPlayerIndex], d.total)
    /\ bonus' = TRUE
    /\ resolutions' = resolutions + 1
    /\ pre' = Snapshot(players, marketDeck)
    /\ last' = "income"
    /\ UNCHANGED <<marketDeck, currentPlayerIndex, status, winner, pc, i,
                   numDice, rolls, gameOver, turns, result, answer, error>>
    /\ UNCHANGED apart

\* the special abilities are resolved and no bonus roll is due
ToPurchase ==
    /\ pc = "special"
    /\ purpleCards = <<>>
    /\ ~bonusRollDue(players[currentPlayerIndex], rolls, numDice, bonus)
    /\ pc' = "buy"
    /\ UNCHANGED <<game, i, turn, gameOver, hist>>
    /\ UNCHANGED apart

\* strategy.buy, then PurchaseService.purchase unless the answer is null
Purchase ==
    /\ pc = "buy"
    /\ \E choice \in BuyChoices :
         /\ answer' = [NoAnswer EXCEPT !.call = "buy", !.card = choice]
         /\ IF choice = "none"
            THEN /\ UNCHANGED <<players, marketDeck, ledger>>
                 /\ result' = "skip"
            ELSE LET r == purchase(players[currentPlayerIndex], choice, marketDeck)
                 IN /\ players' = [players EXCEPT ![currentPlayerIndex] = r.player]
                    /\ marketDeck' = r.market
                    /\ result' = r.message
                    /\ ledger' = IF r.message = "purchased"
                                 THEN recordPurchase(ledger, choice) ELSE ledger
    /\ pre' = Snapshot(players, marketDeck)
    /\ last' = "purchase"
    /\ pc' = "wincheck"
    /\ UNCHANGED <<currentPlayerIndex, status, winner, i, turn, gameOver,
                   turns, resolutions, error, lastDiceRoll>>
    /\ UNCHANGED <<sideBySide, state>>

\* executeTurn returns true: runGame breaks out of the loop
Win ==
    /\ pc = "wincheck"
    /\ executeTurnResult(players[currentPlayerIndex])
    /\ gameOver' = TRUE
    /\ pc' = "done"
    /\ EndTurnLocals
    /\ UNCHANGED <<game, i, hist>>
    /\ UNCHANGED apart

\* executeTurn returns false: game.endTurn() and the next iteration
NextTurn ==
    /\ pc = "wincheck"
    /\ ~executeTurnResult(players[currentPlayerIndex])
    /\ LET e == endTurn(status, winner, currentPlayerIndex, players)
       IN /\ status' = e.status
          /\ winner' = e.winner
          /\ currentPlayerIndex' = e.currentPlayerIndex
          /\ error' = e.error
          /\ pc' = IF e.error # "" THEN "thrown" ELSE "loop"
    /\ i' = i + 1
    /\ EndTurnLocals
    /\ last' = "none"
    /\ result' = ""
    /\ answer' = NoAnswer
    /\ resolutions' = 0
    /\ pre' = Snapshot(players, marketDeck)
    /\ UNCHANGED <<players, marketDeck, gameOver, turns>>
    /\ UNCHANGED apart

(***************************************************************************)
(* Direct calls on the Game while no run is under way                      *)
(***************************************************************************)
GameStart ==
    /\ Stopped
    /\ LET s == start(status)
       IN /\ status' = s.status
          /\ error' = s.error
    /\ UNCHANGED <<players, marketDeck, currentPlayerIndex, winner, pc, i,
                   turn, gameOver, turns, pre, last, result, answer, resolutions>>
    /\ UNCHANGED apart

GameEndTurn ==
    /\ Stopped
    /\ LET e == endTurn(status, winner, currentPlayerIndex, players)
       IN /\ status' = e.status
          /\ winner' = e.winner
          /\ currentPlayerIndex' = e.currentPlayerIndex
          /\ error' = e.error
    /\ UNCHANGED <<players, marketDeck, pc, i, turn, gameOver, turns, pre,
                   last, result, answer, resolutions>>
    /\ UNCHANGED apart

Next ==
    \/ RunGame
    \/ LoopExit
    \/ Roll
    \/ Reroll
    \/ Income
    \/ Ability
    \/ SwapDeclined
    \/ Swap
    \/ BonusRoll
    \/ ToPurchase
    \/ Purchase
    \/ Win
    \/ NextTurn
    \/ GameStart
    \/ GameEndTurn

Spec == Init /\ [][Next]_vars

\* the steps of a run; every awaited strategy call is taken to answer
EngineStep ==
    \/ LoopExit \/ Roll \/ Reroll \/ Income \/ Ability \/ SwapDeclined
    \/ Swap \/ BonusRoll \/ ToPurchase \/ Purchase \/ Win \/ NextTurn

\* Weak fairness of EngineStep.  A step of the run is enabled exactly while
\* a run is in progress (~Stopped), so WF_vars(EngineStep) is the formula
\* below, written without ENABLED.
FairSpec == Spec /\ ([]<>Stopped \/ []<><<EngineStep>>_vars)

(***************************************************************************)
(* The ways a Game is made: Game.create, Game.createWithState,             *)
(* Game.fromJSON, convertToDomainGame; Game.toJSON                         *)
(***************************************************************************)
\* null in a JSON form
NoId == 0

\* Map.set(key, value) on a Map kept as a sequence of entries
mapSet(e, key, value) ==
    IF \E k \in 1..Len(e) : e[k][1] = key
    THEN [k \in 1..Len(e) |-> IF e[k][1] = key THEN <<key, value>> ELSE e[k]]
    ELSE Append(e, <<key, value>>)

\* for (const [cardName, count] of Object.entries(record)) map.set(cardName, count)
RECURSIVE entriesToMap(_, _)
entriesToMap(entries, acc) ==
    IF entries = <<>> THEN acc
    ELSE entriesToMap(Tail(entries), mapSet(acc, Head(entries)[1], Head(entries)[2]))

\* new Set(array): the first occurrence of every member, in order
RECURSIVE arrayToSet(_, _)
arrayToSet(array, acc) ==
    IF array = <<>> THEN acc
    ELSE arrayToSet(Tail(array),
                    IF Head(array) \in SeqToSet(acc) THEN acc
                    ELSE Append(acc, Head(array)))

\* Player.toJSON(): money as a number, the establishments as a record
\* written in Map order, the landmarks as Array.from(set)
playerToJSON(player) ==
    [money |-> player.money,
     establishments |-> [k \in 1..Len(player.establishments) |->
                           <<player.establishments[k][1], player.establishments[k][2]>>],
     landmarks |-> [k \in 1..Len(player.landmarks) |-> player.landmarks[k]]]

\* Player.fromJSON(data)
playerFromJSON(data) ==
    [money |-> data.money,
     establishments |-> entriesToMap(data.establishments, <<>>),
     landmarks |-> arrayToSet(data.landmarks, <<>>)]

\* players.find((p) => p.id === id) || null
findPlayerById(ps, id) ==
    IF \E seat \in DOMAIN ps : playerId(seat) = id
    THEN CHOOSE seat \in DOMAIN ps :
             /\ playerId(seat) = id
             /\ \A other \in DOMAIN ps : playerId(other) = id => seat <= other
    ELSE NoWinner

\* Game.toJSON(): the winner is written as the winner's id, or null
toJSON(g) ==
    [players |-> [seat \in DOMAIN g.players |-> playerToJSON(g.players[seat])],
     marketDeck |-> [name \in DOMAIN g.marketDeck |-> g.marketDeck[name]],
     currentPlayerIndex |-> g.currentPlayerIndex,
     status |-> g.status,
     winner |-> IF g.winner = NoWinner THEN NoId ELSE playerId(g.winner),
     lastDiceRoll |-> IF g.lastDiceRoll = NoRoll THEN NoRoll
                      ELSE [total |-> g.lastDiceRoll.total,
                            dice |-> g.lastDiceRoll.dice]]

\* fromJSON with the winner left null
fromJSONWithoutWinner(data) ==
    GameOf([seat \in DOMAIN data.players |-> playerFromJSON(data.players[seat])],
           [name \in DOMAIN data.marketDeck |-> data.marketDeck[name]],
           data.currentPlayerIndex, data.status, NoWinner, data.lastDiceRoll)

\* Game.fromJSON(data): the winner is looked up among the players by id
fromJSON(data) ==
    LET ps == [seat \in DOMAIN data.players |-> playerFromJSON(data.players[seat])]
    IN GameOf(ps,
              [name \in DOMAIN data.marketDeck |-> data.marketDeck[name]],
              data.currentPlayerIndex, data.status,
              IF data.winner # NoId THEN findPlayerById(ps, data.winner) ELSE NoWinner,
              IF data.lastDiceRoll # NoRoll
              THEN [total |-> data.lastDiceRoll.total, dice |-> data.lastDiceRoll.dice]
              ELSE NoRoll)

\* the old State: createPlayer(name, strategy) and createGame(players)
oldCreatePlayer ==
    [budget |-> 3,
     deck |-> << <<"Bakery", 1>>, <<"Grain Field", 1>> >>,
     amusementDeck |-> << <<"Terminal", FALSE>>, <<"Shopping Center", FALSE>>,
                          <<"Amusement Park", FALSE>>, <<"Radio Tower", FALSE>> >>]

createGame(oldPlayers) == [players |-> oldPlayers, activePlayerIndex |-> -1]

\* convertToDomainPlayer(oldPlayer): the cards with a count > 0 and the
\* landmarks that are built, in the order of the old records
convertToDomainPlayer(oldPlayer) ==
    LET owned == SelectSeq(oldPlayer.deck, LAMBDA e : e[2] > 0)
        built == SelectSeq(oldPlayer.amusementDeck, LAMBDA e : e[2])
    IN [money |-> oldPlayer.budget,
        establishments |-> entriesToMap(owned, <<>>),
        landmarks |-> arrayToSet([k \in 1..Len(built) |-> built[k][1]], <<>>)]

\* convertToDomainGame(oldState): the default market, the old active index,
\* in progress, no winner, no dice roll
convertToDomainGame(oldState) ==
    createWithState(
        [k \in 0..(Len(oldState.players) - 1) |->
            convertToDomainPlayer(oldState.players[k + 1])],
        createMarketDeck, oldState.activePlayerIndex, "in_progress",
        NoWinner, NoRoll)

\* the old states a conversion is made from: as createGame leaves them, or
\* with the index on a seat as the old loop leaves it
OldStates ==
    {[createGame(<<oldCreatePlayer, oldCreatePlayer>>) EXCEPT !.activePlayerIndex = a] :
        a \in {-1, 0, 1}}

\* the arguments createWithState and fromJSON are given
StatedPlayers ==
    { Seats(<< createPlayer >>),
      Seats(<< createPlayer, createPlayer >>),
      Seats(<< seeded(10, <<>>, <<"Terminal", "Shopping Center", "Amusement Park",
                               "Radio Tower">>),
               seeded(5, <<"Cafe", "Cafe">>, <<"Terminal">>),
               createPlayer >>) }
StatedIndexes == {-1, 0, 1, 2, 3}
StatedStatuses == {"waiting", "in_progress", "finished"}
StatedRolls == {NoRoll, DiceRollOf(<<4>>), DiceRollOf(<<2, 3>>)}

StatedGames ==
    { createWithState(ps, createMarketDeck, cpi, st, w, roll) :
        ps \in StatedPlayers, cpi \in StatedIndexes, st \in StatedStatuses,
        w \in {NoWinner, 0}, roll \in StatedRolls }

CreatedGames ==
    {g \in {create(n) : n \in 1..3}
            \cup StatedGames
            \cup {fromJSON(toJSON(g)) : g \in StatedGames}
            \cup {convertToDomainGame(old) : old \in OldStates} :
        validPlayerCount(g.players)}

\* the Game of the current state
TheGame ==
    GameOf(players, marketDeck, currentPlayerIndex, status, winner, lastDiceRoll)

GameInit ==
    /\ \E g \in CreatedGames :
         /\ players = g.players
         /\ marketDeck = g.marketDeck
         /\ currentPlayerIndex = g.currentPlayerIndex
         /\ status = g.status
         /\ winner = g.winner
         /\ lastDiceRoll = g.lastDiceRoll
    /\ pc = "idle"
    /\ i = 0
    /\ numDice = 0
    /\ rolls = <<>>
    /\ diceRoll = NoRoll
    /\ purpleCards = <<>>
    /\ bonus = FALSE
    /\ gameOver = FALSE
    /\ turns = 0
    /\ pre = Snapshot(players, marketDeck)
    /\ last = "none"
    /\ result = ""
    /\ answer = NoAnswer
    /\ resolutions = 0
    /\ error = ""
    /\ ledger = NewLedger(marketDeck)
    /\ strategyRegistry = EmptyRegistry
    /\ sessions = [g \in Games |-> NewSession]
    /\ state = createState(players, marketDeck)

\* game.recordDiceRoll(roll)
RecordDiceRoll ==
    /\ \E roll \in StatedRolls \ {NoRoll} : lastDiceRoll' = roll
    /\ last' = "recordDiceRoll"
    /\ UNCHANGED <<players, marketDeck, currentPlayerIndex, status, winner, pc,
                   i, turn, gameOver, turns, pre, result, answer, resolutions,
                   error, ledger>>
    /\ UNCHANGED <<sideBySide, state>>

\* the game is written with toJSON and read back with fromJSON
Reload ==
    /\ LET g == fromJSON(toJSON(TheGame))
       IN /\ players' = g.players
          /\ marketDeck' = g.marketDeck
          /\ currentPlayerIndex' = g.currentPlayerIndex
          /\ status' = g.status
          /\ winner' = g.winner
          /\ lastDiceRoll' = g.lastDiceRoll
    /\ pre' = Snapshot(players, marketDeck)
    /\ last' = "fromJSON"
    /\ UNCHANGED <<pc, i, turn, gameOver, turns, result, answer, resolutions,
                   error, ledger>>
    /\ UNCHANGED <<sideBySide, state>>

GameNext ==
    \/ GameStart
    \/ GameEndTurn
    \/ RecordDiceRoll
    \/ Reload

GameSpec == GameInit /\ [][GameNext]_vars

\* a game made by Game.create and run by the engine, saved and loaded
\* again between the runs
SavedNext ==
    \/ Next
    \/ (Stopped /\ Reload)

SavedSpec == Init /\ [][SavedNext]_vars

(***************************************************************************)
(* A run whose purchase decisions come from createSimpleStrategy().buy     *)
(***************************************************************************)
\* for (const landmark of landmarks): PurchaseService.purchase is called
\* on the player itself, and the landmark is returned if it succeeded
RECURSIVE simpleLandmark(_, _, _)
simpleLandmark(landmarks, player, market) ==
    IF landmarks = <<>>
    THEN [choice |-> "none", player |-> player, market |-> market]
    ELSE LET r == purchase(player, Head(landmarks), market)
         IN IF ~hasLandmark(player, Head(landmarks)) /\ r.success
            THEN [choice |-> Head(landmarks), player |-> r.player,
                  market |-> r.market]
            ELSE simpleLandmark(Tail(landmarks), player, market)

\* for (const establishment of establishments):
\* market.isAvailable(establishment) && money >= 1
simpleEstablishment(establishments, player, market) ==
    LET hits == {k \in 1..Len(establishments) :
                    isAvailable(market, establishments[k]) /\ player.money >= 1}
    IN IF hits = {} THEN "none"
       ELSE establishments[CHOOSE k \in hits : \A h \in hits : k <= h]

\* createSimpleStrategy().buy(game): the decision, and the player and the
\* market as the call leaves them
simpleBuy(player, market) ==
    LET l == simpleLandmark(<<"Terminal", "Shopping Center", "Amusement Park",
                              "Radio Tower">>, player, market)
    IN IF l.choice # "none" THEN l
       ELSE [choice |-> simpleEstablishment(
                            <<"Grain Field", "Bakery", "Forest", "Shop",
                              "Cheese Factory", "Furniture Factory", "Mine">>,
                            player, market),
             player |-> player, market |-> market]

\* const purchase = await strategy.buy(game), the strategy being the
\* simple one
SimpleBuy ==
    /\ pc = "buy"
    /\ LET b == simpleBuy(players[currentPlayerIndex], marketDeck)
       IN /\ players' = [players EXCEPT ![currentPlayerIndex] = b.player]
          /\ marketDeck' = b.market
          /\ answer' = [NoAnswer EXCEPT !.call = "buy", !.card = b.choice]
    /\ pre' = Snapshot(players, marketDeck)
    /\ last' = "strategy.buy"
    /\ result' = ""
    /\ pc' = "bought"
    /\ UNCHANGED <<currentPlayerIndex, status, winner, i, turn, gameOver,
                   turns, resolutions, error>>
    /\ UNCHANGED apart

\* if (purchase) PurchaseService.purchase(player, purchase, market)
PurchaseAnswered ==
    /\ pc = "bought"
    /\ IF answer.card = "none"
       THEN /\ UNCHANGED <<players, marketDeck, ledger>>
            /\ result' = "skip"
       ELSE LET r == purchase(players[currentPlayerIndex], answer.card, marketDeck)
            IN /\ players' = [players EXCEPT ![currentPlayerIndex] = r.player]
               /\ marketDeck' = r.market
               /\ result' = r.message
               /\ ledger' = IF r.message = "purchased"
                            THEN recordPurchase(ledger, answer.card) ELSE ledger
    /\ pre' = Snapshot(players, marketDeck)
    /\ last' = "purchase"
    /\ pc' = "wincheck"
    /\ UNCHANGED <<currentPlayerIndex, status, winner, i, turn, gameOver,
                   turns, answer, resolutions, error, lastDiceRoll>>
    /\ UNCHANGED <<sideBySide, state>>

SimpleNext ==
    \/ RunGame
    \/ LoopExit
    \/ Roll
    \/ Reroll
    \/ Income
    \/ Ability
    \/ SwapDeclined
    \/ Swap
    \/ BonusRoll
    \/ ToPurchase
    \/ SimpleBuy
    \/ PurchaseAnswered
    \/ Win
    \/ NextTurn

SimpleSpec == Init /\ [][SimpleNext]_vars

(***************************************************************************)
(* Calls on a MarketDeck: purchase(cardName) and restock(cardName, n)      *)
(***************************************************************************)
MarketCallNames == {"Cafe", "Stadium"}
RestockQuantities == {-1, 0, 1, 2}

MarketPurchaseCall ==
    /\ ledger.calls < MaxCalls
    /\ \E name \in MarketCallNames :
         /\ marketDeck' = marketPurchase(marketDeck, name)
         /\ result' = marketPurchaseReturns(marketDeck, name)
         /\ answer' = [NoAnswer EXCEPT !.call = "market.purchase", !.card = name]
         /\ ledger' = [(IF marketPurchaseReturns(marketDeck, name) = "card"
                         THEN recordPurchase(ledger, name) ELSE ledger)
                          EXCEPT !.calls = @ + 1]
    /\ pre' = Snapshot(players, marketDeck)
    /\ last' = "market.purchase"
    /\ error' = ""
    /\ UNCHANGED <<players, currentPlayerIndex, status, winner, pc, i, turn,
                   gameOver, turns, resolutions, lastDiceRoll>>
    /\ UNCHANGED <<sideBySide, state>>

MarketRestock ==
    /\ ledger.calls < MaxCalls
    /\ \E name \in MarketCallNames, quantity \in RestockQuantities :
         LET r == restock(marketDeck, name, quantity)
         IN /\ marketDeck' = r.market
            /\ error' = r.error
            /\ result' = IF r.error = "" THEN "restocked" ELSE "threw"
            /\ answer' = [NoAnswer EXCEPT !.call = "market.restock", !.card = name,
                                          !.dice = quantity]
            /\ ledger' = [(IF r.error = "" THEN recordRestock(ledger, name, quantity)
                            ELSE ledger)
                             EXCEPT !.calls = @ + 1]
    /\ pre' = Snapshot(players, marketDeck)
    /\ last' = "market.restock"
    /\ UNCHANGED <<players, currentPlayerIndex, status, winner, pc, i, turn,
                   gameOver, turns, resolutions, lastDiceRoll>>
    /\ UNCHANGED <<sideBySide, state>>

MarketNext ==
    \/ MarketPurchaseCall
    \/ MarketRestock

MarketSpec == Init /\ [][MarketNext]_vars

(***************************************************************************)
(* Calls on a Player: buildLandmark(landmarkName)                          *)
(***************************************************************************)
\* the seats every game has
BuildSeats == {0, 1}

BuildLandmarkCall ==
    /\ \E p \in BuildSeats, name \in LandmarkNames :
         /\ players' = [players EXCEPT ![p] = buildLandmark(@, name)]
         /\ answer' = [NoAnswer EXCEPT !.call = "buildLandmark", !.card = name,
                                       !.otherPlayerIndex = p]
    /\ pre' = Snapshot(players, marketDeck)
    /\ last' = "buildLandmark"
    /\ UNCHANGED <<marketDeck, currentPlayerIndex, status, winner, pc, i, turn,
                   gameOver, turns, result, resolutions, error>>
    /\ UNCHANGED apart

PlayerNext == BuildLandmarkCall

PlayerSpec == Init /\ [][PlayerNext]_vars

(***************************************************************************)
(* The calls run side by side                                              *)
(***************************************************************************)
\* the player of the turn
turnPlayer(s) == s.game.players[s.game.currentPlayerIndex]

\* runGame's loop after a turn that did not end the game: game.endTurn(),
\* i++, and the loop condition
loopOn(s) ==
    LET g == s.game
        e == endTurn(g.status, g.winner, g.currentPlayerIndex, g.players)
    IN [s EXCEPT !.game.status = e.status,
                 !.game.winner = e.winner,
                 !.game.currentPlayerIndex = e.currentPlayerIndex,
                 !.strategy = NoStrategy,
                 !.i = @ + 1,
                 !.pc = IF e.error = "" /\ loopContinues(s.i + 1, MaxTurns)
                        THEN "turn" ELSE "done"]

\* executeTurn up to its first await: the strategy is looked up in the
\* registry; without one the turn returns false
beginTurn(s, registry) ==
    LET strategy == get(registry, playerId(s.game.currentPlayerIndex))
    IN IF strategy = NoStrategy THEN loopOn(s)
       ELSE [s EXCEPT !.strategy = strategy, !.pc = "roll"]

\* executeTurn from the answer of strategy.roll to the await of
\* strategy.buy: the dice are rolled and the income resolved
afterRoll(s) ==
    LET player == turnPlayer(s)
        n == decideNumDice(player, strategyRoll(s.strategy, player))
        rolled == DiceRollOf(slice(scriptedRoll(s.dice, s.i), n))
    IN [s EXCEPT !.game.players =
                     processIncome(@, s.game.currentPlayerIndex, rolled.total),
                 !.pc = "buy"]

\* executeTurn from the answer of strategy.buy to its return, and runGame
\* up to the next executeTurn
afterBuy(s) ==
    LET player == turnPlayer(s)
        choice == strategyBuy(s.strategy, player, s.game.marketDeck)
        r == IF choice = "none"
             THEN PurchaseResult(FALSE, "skip", player, s.game.marketDeck)
             ELSE purchase(player, choice, s.game.marketDeck)
        bought == [s EXCEPT !.game.players[s.game.currentPlayerIndex] = r.player,
                            !.game.marketDeck = r.market]
    IN IF executeTurnResult(r.player)
       THEN [bought EXCEPT !.pc = "done", !.strategy = NoStrategy]
       ELSE loopOn(bought)

\* initGame / a test: the strategies are registered and runGame is called;
\* runGame starts the game and enters the first turn
initGame(s, mine, script, registry) ==
    LET started == start(s.game.status)
    IN beginTurn([s EXCEPT !.mine = mine, !.dice = script,
                           !.game.status = started.status],
                 registry)

\* the game of a call that runs with no other call beside it
RECURSIVE runAlone(_, _)
runAlone(s, registry) ==
    CASE s.pc = "turn" -> runAlone(beginTurn(s, registry), registry)
      [] s.pc = "roll" -> runAlone(afterRoll(s), registry)
      [] s.pc = "buy"  -> runAlone(afterBuy(s), registry)
      [] OTHER         -> s

alone(mine, script) ==
    LET registry == registerAll(EmptyRegistry, mine, 0)
    IN runAlone(initGame(NewSession, mine, script, registry), registry)

\* a call registers its strategies and runs its game to the first await
InitGame ==
    \E g \in Games, mine \in Assignments, script \in DiceScripts :
        /\ sessions[g].pc = "created"
        /\ strategyRegistry' = registerAll(strategyRegistry, mine, 0)
        /\ sessions' = [sessions EXCEPT
                          ![g] = initGame(@, mine, script, strategyRegistry')]
        /\ UNCHANGED <<game, pc, i, turn, gameOver, hist, lastDiceRoll, ledger,
                       state>>

\* runGame goes on to the next executeTurn
ExecuteTurn ==
    \E g \in Games :
        /\ sessions[g].pc = "turn"
        /\ sessions' = [sessions EXCEPT ![g] = beginTurn(@, strategyRegistry)]
        /\ UNCHANGED <<game, pc, i, turn, gameOver, hist, lastDiceRoll, ledger,
                       strategyRegistry, state>>

\* await strategy.roll(game) resumes
RollAnswered ==
    \E g \in Games :
        /\ sessions[g].pc = "roll"
        /\ sessions' = [sessions EXCEPT ![g] = afterRoll(@)]
        /\ UNCHANGED <<game, pc, i, turn, gameOver, hist, lastDiceRoll, ledger,
                       strategyRegistry, state>>

\* await strategy.buy(game) resumes
BuyAnswered ==
    \E g \in Games :
        /\ sessions[g].pc = "buy"
        /\ sessions' = [sessions EXCEPT ![g] = afterBuy(@)]
        /\ UNCHANGED <<game, pc, i, turn, gameOver, hist, lastDiceRoll, ledger,
                       strategyRegistry, state>>

SideBySideNext ==
    \/ InitGame
    \/ ExecuteTurn
    \/ RollAnswered
    \/ BuyAnswered

SideBySideSpec == Init /\ [][SideBySideNext]_vars

(***************************************************************************)
(* The original engine (engine.ts, utils.ts): buy, process, processPlayer  *)
(***************************************************************************)
\* NaN, what undefined - 1 evaluates to, kept apart from every count
NaN == -1000

\* deck[name] || 0 : 0 for a missing key, for 0 and for NaN
deckCount(deck, name) ==
    LET hits == {k \in 1..Len(deck) : deck[k][1] = name}
    IN IF hits = {} THEN 0
       ELSE LET v == deck[CHOOSE k \in hits : TRUE][2]
            IN IF v = NaN THEN 0 ELSE v

\* deck[name]! -= 1 : NaN for a missing key, the key is kept at 0
deckMinusOne(deck, name) ==
    IF \E k \in 1..Len(deck) : deck[k][1] = name
    THEN [k \in 1..Len(deck) |->
            IF deck[k][1] # name THEN deck[k]
            ELSE <<name, IF deck[k][2] = NaN THEN NaN ELSE deck[k][2] - 1>>]
    ELSE Append(deck, <<name, NaN>>)

\* deck[name] = (deck[name] || 0) + 1
deckPlusOne(deck, name) == mapSet(deck, name, deckCount(deck, name) + 1)

\* player.amusementDeck[name]
amusement(player, name) ==
    \E k \in 1..Len(player.amusementDeck) : player.amusementDeck[k] = <<name, TRUE>>

\* playerHasWon(player): Object.values(player.amusementDeck).every(v => v)
playerHasWon(player) ==
    \A k \in 1..Len(player.amusementDeck) : player.amusementDeck[k][2]

\* buy(name, player, game) for an amusement card
buyAmusement(st, a, name) ==
    LET player == st.players[a]
        cost == getLandmark(name).cost
    IN IF player.budget < cost THEN st
       ELSE IF amusement(player, name) THEN st
       ELSE [st EXCEPT !.players[a].amusementDeck =
                           [k \in 1..Len(@) |->
                              IF @[k][1] = name THEN <<name, TRUE>> ELSE @[k]],
                       !.players[a].budget = @ - cost]

\* buy(name, player, game) for a card of the deck
buyCard(st, a, name) ==
    LET player == st.players[a]
        cost == getEstablishment(name).cost
    IN IF player.budget < cost THEN st
       ELSE IF st.deck[name] <= 0 THEN st
       ELSE IF getEstablishment(name).isSingular /\ deckCount(player.deck, name) # 0
       THEN st
       ELSE [st EXCEPT !.deck[name] = @ - 1,
                       !.players[a].budget = @ - cost,
                       !.players[a].deck = deckPlusOne(@, name)]

\* buy(name, player, game)
buy(st, a, name) ==
    IF isLandmark(name) THEN buyAmusement(st, a, name) ELSE buyCard(st, a, name)

\* getPlayersToProcess(activePlayerIndex, players), as seats
getPlayersToProcess(a, n) ==
    [k \in 1..n |-> (a + k - 1) % n]

\* processPlayer, a player who is not the first of playersToProcess: the
\* income of the blue cards that activate on the roll
passiveIncome(domainPlayer, total) ==
    LET cards == getEstablishmentCards(domainPlayer)
    IN SumSeq([k \in 1..Len(cards) |->
                 IF isPassiveCard(cards[k]) /\ activatesOn(cards[k], total)
                 THEN getEstablishment(cards[k]).income
                      + multiplierIncome(domainPlayer, cards[k])
                      + shoppingCenterBonus(domainPlayer, cards[k])
                 ELSE 0])

\* IncomeCalculator.calculateHostileIncome(target, active, roll): the red
\* cards of the target that activate, no more than the active player has
calculateHostileIncome(target, active, total) ==
    Min(calculateRedCardIncome(target, total), active.money)

\* processPlayer(res, diceRoll, player, false, game) for the player of seat
\* p: the active player is game.players[game.activePlayerIndex] as the call
\* finds it
processOther(st, p, total) ==
    LET a == st.activePlayerIndex
        domainPlayer == convertToDomainPlayer(st.players[p])
        domainActivePlayer == convertToDomainPlayer(st.players[a])
        passive == passiveIncome(domainPlayer, total)
        s1 == IF passive > 0 THEN [st EXCEPT !.players[p].budget = @ + passive]
              ELSE st
        hostileIncome == calculateHostileIncome(domainPlayer, domainActivePlayer, total)
        stolen == Min(hostileIncome, s1.players[a].budget)
        s2 == [s1 EXCEPT !.players[a].budget = @ - stolen]
    IN IF hostileIncome > 0 THEN [s2 EXCEPT !.players[p].budget = @ + stolen]
       ELSE s1

\* processPlayer(res, diceRoll, player, true, game), the income
processActive(st, p, total) ==
    LET income == calculateIncome(convertToDomainPlayer(st.players[p]), total)
    IN IF income > 0 THEN [st EXCEPT !.players[p].budget = @ + income] ELSE st

\* take_2_coins_from_every_player: game.players.filter(p => p !== player)
RECURSIVE take2(_, _, _)
take2(st, p, others) ==
    IF others = <<>> THEN st
    ELSE LET payment == Min(2, st.players[Head(others)].budget)
         IN take2([[st EXCEPT !.players[Head(others)].budget = @ - payment]
                         EXCEPT !.players[p].budget = @ + payment],
                  p, Tail(others))

\* nonActivePlayers2.reduce((a, b) => a.budget > b.budget ? a : b)
RECURSIVE reduceRichest(_, _, _)
reduceRichest(st, a, rest) ==
    IF rest = <<>> THEN a
    ELSE reduceRichest(st,
                       IF st.players[a].budget > st.players[Head(rest)].budget
                       THEN a ELSE Head(rest),
                       Tail(rest))

\* take_5_coins_from_one_player
take5(st, p, others) ==
    LET richestPlayer == reduceRichest(st, Head(others), Tail(others))
        payment2 == Min(5, st.players[richestPlayer].budget)
    IN [[st EXCEPT !.players[richestPlayer].budget = @ - payment2]
            EXCEPT !.players[p].budget = @ + payment2]

\* switch_1_non_tower_card_with_one_player with the answer d of
\* strategy.swap: the give card is taken from the player before
\* otherPlayer.deck is read, which throws for an index that is no seat
switch1(st, p, d) ==
    IF d = NullSwap THEN [st |-> st, threw |-> FALSE]
    ELSE IF (isEstablishment(d.give) /\ getEstablishment(d.give).color = "purple")
            \/ (isEstablishment(d.take) /\ getEstablishment(d.take).color = "purple")
    THEN [st |-> st, threw |-> FALSE]
    ELSE IF deckCount(st.players[p].deck, d.give) < 1
    THEN [st |-> st, threw |-> FALSE]
    ELSE LET o == d.otherPlayerIndex
             s1 == [st EXCEPT !.players[p].deck = deckMinusOne(@, d.give)]
         IN IF o \notin DOMAIN st.players THEN [st |-> s1, threw |-> TRUE]
            ELSE LET s2 == [s1 EXCEPT !.players[o].deck = deckPlusOne(@, d.give)]
                     s3 == [s2 EXCEPT !.players[o].deck = deckMinusOne(@, d.take)]
                 IN [st |-> [s3 EXCEPT !.players[p].deck = deckPlusOne(@, d.take)],
                     threw |-> FALSE]

\* the entries of Object.entries(player.deck) whose special rule
\* processPlayer applies for the total res: green or purple cards that
\* match res and have a rule, whatever the count of the entry
rulesOf(st, p, res) ==
    LET deck == st.players[p].deck
        names == [k \in 1..Len(deck) |-> deck[k][1]]
    IN SelectSeq(names,
                 LAMBDA c : /\ res \in getEstablishment(c).activationNumbers
                            /\ getEstablishment(c).color \in {"green", "purple"}
                            /\ getEstablishment(c).specialRule # NoRule)

\* what process has to do after the income of the active player: the
\* rules of the active player's cards, then the other players
Rule(card, p) == [kind |-> "rule", card |-> card, seat |-> p]
Other(p) == [kind |-> "player", card |-> "", seat |-> p]
workOf(st, res) ==
    LET a == st.activePlayerIndex
        n == Cardinality(DOMAIN st.players)
        rules == rulesOf(st, a, res)
        order == getPlayersToProcess(a, n)
    IN [k \in 1..Len(rules) |-> Rule(rules[k], a)]
         \o [k \in 1..(n - 1) |-> Other(order[k + 1])]

\* one item of the work: a rule of the player's cards or another player
doItem(st, item, total, d) ==
    LET others == seatsFrom(0, Cardinality(DOMAIN st.players), item.seat)
        rule == IF item.kind = "rule" THEN getEstablishment(item.card).specialRule
                ELSE NoRule
    IN IF item.kind = "player"
       THEN [st |-> processOther(st, item.seat, total), threw |-> FALSE]
       ELSE IF rule = "take_2_coins_from_every_player"
       THEN [st |-> take2(st, item.seat, others), threw |-> FALSE]
       ELSE IF rule = "take_5_coins_from_one_player"
       THEN [st |-> take5(st, item.seat, others), threw |-> FALSE]
       ELSE switch1(st, item.seat, d)

\* the items of the work carried out one after the other
RECURSIVE doWork(_, _, _, _)
doWork(st, work, total, d) ==
    IF work = <<>> THEN [st |-> st, threw |-> FALSE]
    ELSE LET r == doItem(st, Head(work), total, d)
         IN IF r.threw THEN r ELSE doWork(r.st, Tail(work), total, d)

\* the card whose rule awaits strategy.swap
AsksSwap(item) ==
    /\ item.kind = "rule"
    /\ getEstablishment(item.card).specialRule
         = "switch_1_non_tower_card_with_one_player"

\* the items up to the first await: the rules before a card that asks
\* strategy.swap, all the rules if there is none
RECURSIVE upToAwait(_)
upToAwait(work) ==
    IF work = <<>> THEN <<>>
    ELSE IF Head(work).kind = "player" \/ AsksSwap(Head(work)) THEN <<>>
    ELSE <<Head(work)>> \o upToAwait(Tail(work))

\* the items one resumption of the process carries out: the other player
\* at the head, or the awaited swap and the rules after it
resumed(work) ==
    IF work = <<>> THEN <<>>
    ELSE <<Head(work)>> \o (IF Head(work).kind = "player" THEN <<>>
                            ELSE upToAwait(Tail(work)))


(***************************************************************************)
(* runGame(game, maxSteps) of the original engine, run beside the          *)
(* remodeled one on the same seating: each strategy call of the original   *)
(* engine is answered as the same call of the remodeled engine was, and    *)
(* each roll shows the faces the remodeled engine rolled.  The original    *)
(* run is left where it stands ("apart") once it asks for an answer or for *)
(* dice the remodeled turn did not have, and at the end of the first turn   *)
(* that leaves the two engines with different players or decks ("differ"). *)
(***************************************************************************)
remodeled == <<game, pc, i, turn, gameOver, hist, lastDiceRoll, ledger, sideBySide>>

\* the original run still follows
Following == state.pc \notin {"apart", "differ", "done", "thrown"}

\* the count the deck of an original player holds for a card
entryOf(deck, name) ==
    LET hits == {k \in 1..Len(deck) : deck[k][1] = name}
    IN IF hits = {} THEN 0 ELSE deck[CHOOSE k \in hits : TRUE][2]

\* the players ps and the market m of the remodeled engine and the State st
\* hold the same: money, copies of every card, landmarks, quantities
Alike(ps, m, st) ==
    /\ DOMAIN ps = DOMAIN st.players
    /\ \A p \in DOMAIN ps :
          /\ ps[p].money = st.players[p].budget
          /\ \A c \in EstablishmentNames :
                getEstablishmentCount(ps[p], c) = entryOf(st.players[p].deck, c)
          /\ \A l \in LandmarkNames :
                hasLandmark(ps[p], l) <=> amusement(st.players[p], l)
    /\ \A c \in EstablishmentNames : m[c] = st.deck[c]

\* the original run has taken every answer given so far and stands at one
\* of the places S, with nothing pending beside it
Waits(S) == state.pending = <<>> /\ (~Following \/ state.pc \in S)

\* the original run waits for the answer of strategy.buy
WaitsBuy == state.pc = "buy" \/ (~Following /\ state.pending = <<>>)

\* the answer of strategy.swap the remodeled engine was given last
swapAnswer ==
    IF answer.card = "" THEN NullSwap
    ELSE [give |-> answer.card, take |-> answer.take,
          otherPlayerIndex |-> answer.otherPlayerIndex]

\* the remodeled engine has resolved the first roll of the turn
Resolved1 ==
    /\ ~bonus /\ resolutions = 1
    /\ (pc = "special" /\ purpleCards = <<>>) \/ pc = "thrown"

\* the remodeled engine has resolved the bonus roll of the turn
Resolved2 ==
    /\ bonus
    /\ (pc \in {"special", "buy"} /\ purpleCards = <<>>) \/ pc = "thrown"

\* the top of the for loop: activePlayerIndex moves on and strategy.roll
\* is called, or the loop ends at maxSteps
loopTop(st) ==
    IF st.i < MaxSteps
    THEN [st EXCEPT !.activePlayerIndex = (@ + 1) % Cardinality(DOMAIN st.players),
                    !.pc = "roll"]
    ELSE [st EXCEPT !.pc = "done"]

\* rolls[0] === rolls[1] && player.amusementDeck['Amusement Park']
rollsDouble(st) ==
    /\ Len(st.rolls) >= 2 /\ st.rolls[1] = st.rolls[2]
    /\ amusement(st.players[st.activePlayerIndex], "Amusement Park")

\* the process of the roll needs an answer of strategy.swap
asksSwap(st, res) ==
    \E k \in 1..Len(workOf(st, res)) : AsksSwap(workOf(st, res)[k])

\* runGame is called
OldRunGame ==
    /\ state.pc = "idle"
    /\ pc # "idle"
    /\ state' = [loopTop(state) EXCEPT !.last = "runGame"]
    /\ UNCHANGED remodeled

\* strategy.roll answers nDice; [res, rolls] = roll(nDice).  What is
\* pending of the last turn's bonus roll is taken to have resumed by the
\* time the answer comes
OldRoll ==
    /\ state.pc = "roll"
    /\ state.pending = <<>>
    /\ pc \in {"reroll", "income"} /\ answer.call = "roll"
    /\ answer.dice = Len(rolls)
    /\ state' = [state EXCEPT
                   !.nDice = answer.dice,
                   !.res = SumSeq(rolls),
                   !.rolls = rolls,
                   !.pc = IF amusement(state.players[state.activePlayerIndex],
                                       "Radio Tower")
                          THEN "reroll" ELSE "process",
                   !.last = "roll"]
    /\ UNCHANGED remodeled

\* Radio Tower: strategy.reroll answers; [res, rolls] = roll(nDice) for the
\* inner nDice if it is truthy, the outer nDice stays
OldReroll ==
    /\ state.pc = "reroll"
    /\ pc = "income" /\ answer.call = "reroll"
    /\ state' = [state EXCEPT
                   !.res = IF answer.dice # 0 THEN SumSeq(rolls) ELSE @,
                   !.rolls = IF answer.dice # 0 THEN rolls ELSE @,
                   !.pc = "process",
                   !.last = "reroll"]
    /\ UNCHANGED remodeled

\* the answer strategy.swap gives the process of the roll
swapGiven(st, res) ==
    IF asksSwap(st, res) /\ answer.call = "swap" THEN swapAnswer ELSE NullSwap

\* process(res, diceRoll, game) is called: processPlayer begins with the
\* income of the active player
startProcess(st, res, total, awaited) ==
    [processActive(st, st.activePlayerIndex, total) EXCEPT
        !.pending = workOf(st, res),
        !.total = total,
        !.swap = swapGiven(st, res),
        !.awaited = awaited,
        !.resumptions = 0,
        !.pc = "processing"]

\* the process stands at an await that yields: of strategy.swap, or of the
\* processPlayer of the player before
AtAwait(st) ==
    st.pending # <<>>
    /\ (Head(st.pending).kind = "player" \/ AsksSwap(Head(st.pending)))

\* diceRoll = DiceRoll.of(rolls.slice(0, nDice)); await process(res,
\* diceRoll, game)
OldProcess ==
    /\ state.pc = "process"
    /\ Resolved1
    /\ asksSwap(state, state.res) => answer.call = "swap"
    /\ state' = [startProcess(state, state.res,
                              SumSeq(slice(state.rolls, state.nDice)), TRUE)
                   EXCEPT !.last = "process"]
    /\ UNCHANGED remodeled

\* the bonus roll: [res2, rolls2] = roll(nDice); process(res2, diceRoll2,
\* game) is called and not awaited
OldBonus ==
    /\ state.pc = "bonus"
    /\ Resolved2
    /\ Len(diceRoll.dice) = state.nDice
    /\ asksSwap(state, SumSeq(diceRoll.dice)) => answer.call = "swap"
    /\ state' = [startProcess(state, SumSeq(diceRoll.dice),
                              SumSeq(diceRoll.dice), FALSE)
                   EXCEPT !.last = "bonus"]
    /\ UNCHANGED remodeled

\* the process goes on with its next item while runGame waits for it, or
\* until it comes to an await; after the last item of an awaited process
\* runGame goes on: the bonus roll is due, or strategy.buy is called
OldItem ==
    /\ state.pc = "processing"
    /\ state.pending # <<>>
    /\ state.awaited \/ ~AtAwait(state)
    /\ LET r == doItem(state, Head(state.pending), state.total, state.swap)
           left == Tail(state.pending)
       IN state' = [r.st EXCEPT
                      !.pending = IF r.threw THEN <<>> ELSE left,
                      !.pc = IF r.threw THEN "thrown"
                             ELSE IF left # <<>> \/ ~state.awaited THEN "processing"
                             ELSE IF rollsDouble(r.st) THEN "bonus" ELSE "buy",
                      !.last = "item"]
    /\ UNCHANGED remodeled

\* the process of the bonus roll comes to an await: runGame, which did not
\* await it, goes on and calls strategy.buy
OldGoesOn ==
    /\ state.pc = "processing"
    /\ ~state.awaited
    /\ state.pending = <<>> \/ AtAwait(state)
    /\ state' = [state EXCEPT !.pc = "buy", !.last = "strategy.buy"]
    /\ UNCHANGED remodeled

\* the pending process resumes beside runGame: the answer of strategy.swap
\* has come, or the await of a processPlayer has
OldResume ==
    /\ state.pc # "processing"
    /\ state.pending # <<>>
    /\ LET now == resumed(state.pending)
           r == doWork(state, now, state.total, state.swap)
           done == r.threw \/ Len(now) = Len(state.pending)
       IN state' = [r.st EXCEPT
                      !.pending = IF done THEN <<>>
                                  ELSE SubSeq(@, Len(now) + 1, Len(@)),
                      !.resumptions = IF done THEN 0 ELSE 1,
                      !.last = "resume"]
    /\ UNCHANGED remodeled

\* strategy.buy answers
OldAnswered ==
    /\ state.pc = "buy"
    /\ pc = "wincheck" /\ answer.call = "buy"
    /\ state' = [state EXCEPT !.purchase = answer.card, !.pc = "bought",
                              !.last = "answered"]
    /\ UNCHANGED remodeled

\* runGame resumes with the purchase: buy(purchase, player, game), the win
\* check, the next iteration, whose locals are new.  A pending process that
\* does not wait for strategy.swap has resumed once by then: its await was
\* the earlier one
OldBuy ==
    /\ state.pc = "bought"
    /\ IF state.pending = <<>> THEN TRUE
       ELSE AsksSwap(Head(state.pending)) \/ state.resumptions >= 1
    /\ LET a == state.activePlayerIndex
           s1 == IF state.purchase # "none" THEN buy(state, a, state.purchase)
                 ELSE state
           s2 == [s1 EXCEPT !.nDice = 0, !.res = 0, !.rolls = <<>>,
                            !.purchase = "none", !.last = "buy"]
       IN state' = IF playerHasWon(s2.players[a]) THEN [s2 EXCEPT !.pc = "done"]
                   ELSE IF ~Alike(players, marketDeck, s2)
                   THEN [s2 EXCEPT !.pc = "differ"]
                   ELSE loopTop([s2 EXCEPT !.i = @ + 1])
    /\ UNCHANGED remodeled

\* the original run asks for what the remodeled turn did not have: two dice
\* where one was rolled, a reroll, a bonus roll or a swap that was not made
OldApart ==
    /\ \/ /\ state.pc = "roll"
          /\ pc \in {"reroll", "income"} /\ answer.call = "roll"
          /\ answer.dice # Len(rolls)
       \/ /\ state.pc = "reroll"
          /\ pc = "income" /\ answer.call # "reroll"
       \/ /\ state.pc = "process"
          /\ Resolved1
          /\ asksSwap(state, state.res) /\ answer.call # "swap"
       \/ /\ state.pc = "bonus"
          /\ \/ ~bonus /\ pc = "buy"
             \/ Resolved2 /\ Len(diceRoll.dice) # state.nDice
             \/ Resolved2 /\ asksSwap(state, SumSeq(diceRoll.dice))
                          /\ answer.call # "swap"
    /\ state' = [state EXCEPT !.pc = "apart", !.last = "apart"]
    /\ UNCHANGED remodeled

EnginesNext ==
    \/ (pc = "idle" /\ RunGame)
    \/ (Waits({"roll"}) /\ LoopExit)
    \/ (Waits({"roll"}) /\ Roll)
    \/ (Waits({"reroll", "process"}) /\ Reroll)
    \/ (Waits({"process"}) /\ Income)
    \/ (Waits(IF bonus THEN {"bonus", "buy"} ELSE {"process"}) /\ Ability)
    \/ (Waits(IF bonus THEN {"bonus", "buy"} ELSE {"process"}) /\ SwapDeclined)
    \/ (Waits(IF bonus THEN {"bonus", "buy"} ELSE {"process"}) /\ Swap)
    \/ (Waits({"bonus", "buy"}) /\ BonusRoll)
    \/ (Waits({"bonus", "buy"}) /\ ToPurchase)
    \/ (WaitsBuy /\ Purchase)
    \/ (Waits({"roll"}) /\ Win)
    \/ (Waits({"roll"}) /\ NextTurn)
    \/ OldRunGame
    \/ OldRoll
    \/ OldReroll
    \/ OldProcess
    \/ OldBonus
    \/ OldItem
    \/ OldGoesOn
    \/ OldResume
    \/ OldAnswered
    \/ OldBuy
    \/ OldApart

EnginesSpec == Init /\ [][EnginesNext]_vars

(***************************************************************************)
(* Properties                                                              *)
(***************************************************************************)
Seat == DOMAIN players
Active == currentPlayerIndex
Total == diceRoll.total
MidTurn == {"reroll", "income", "special", "buy"}

\* income has just been resolved for diceRoll; pre holds the state before
AfterIncome == last = "income"

\* what a seat's money changed by in the last operation
Delta(p) == players[p].money - pre.players[p].money

OwnedNames(player) ==
    {player.establishments[k][1] : k \in 1..Len(player.establishments)}

KindCount(player, kind) ==
    LET names == {c \in OwnedNames(player) : getEstablishment(c).kind = kind}
    IN SumSet(names, [c \in names |-> getEstablishmentCount(player, c)])

\* base income + sum of multiplier * owner's count of the kind + 1 for
\* bread and coffee under Shopping Center
FormulaIncome(player, name) ==
    LET card == getEstablishment(name)
        viaMultiplier ==
            SumSet(DOMAIN card.multiplier,
                   [k \in DOMAIN card.multiplier |->
                      card.multiplier[k] * KindCount(player, k)])
        landmarkBonus ==
            "Shopping Center" \in SeqToSet(player.landmarks)
            /\ card.kind \in {"bread", "coffee"}
    IN card.income + viaMultiplier + (IF landmarkBonus THEN 1 ELSE 0)

\* summed income of the owned copies of the given colors that activate
ColorIncome(player, total, colors) ==
    LET names == {c \in OwnedNames(player) :
                    /\ getEstablishment(c).color \in colors
                    /\ total \in getEstablishment(c).activationNumbers}
    IN SumSet(names, [c \in names |->
                        getEstablishmentCount(player, c) * FormulaIncome(player, c)])

\* the seats other than a, in seating order starting after a
RECURSIVE SeatsAfter(_, _, _)
SeatsAfter(a, n, k) ==
    IF k >= n THEN <<>> ELSE <<(a + k) % n>> \o SeatsAfter(a, n, k + 1)

\* what each red-card owner is due, and what a sequential draw on the
\* active player's balance gives each of them
RedDue(p) == ColorIncome(pre.players[p], Total, {"red"})

RECURSIVE DrawInOrder(_, _)
DrawInOrder(order, balance) ==
    IF order = <<>> THEN <<>>
    ELSE LET taken == Min(RedDue(Head(order)), balance)
         IN << <<Head(order), taken>> >> \o DrawInOrder(Tail(order), balance - taken)

\* the active player's balance when the red cards are resolved: the money
\* before the roll plus the income credited for the player's own cards
BalanceAtRed == pre.players[Active].money + calculateIncome(pre.players[Active], Total)

\* what the active player paid out to the other seats
PaidOut == BalanceAtRed - players[Active].money

\* what a non-active seat received beyond the income of its blue cards
RedReceived(p) == Delta(p) - ColorIncome(pre.players[p], Total, {"blue"})

Others == Seat \ {Active}

\* C1: when a turn of the engine loop ends with the active player holding
\* all four landmarks, the loop has recorded that player as winner and the
\* status is finished when it stops
C1_WinnerRecordedAtStop ==
    gameOver => (status = "finished" /\ winner = currentPlayerIndex)

\* C2: the status changes only waiting -> in_progress and
\* in_progress -> finished, over start(), endTurn() and engine runs
C2_StatusForwardOnly ==
    [][status' # status =>
          \/ (status = "waiting" /\ status' = "in_progress")
          \/ (status = "in_progress" /\ status' = "finished")]_vars

C2_Witness == status = "finished" /\ winner = currentPlayerIndex /\ gameOver

WonAtTurnEnd == pc \notin MidTurn /\ hasWon(players[currentPlayerIndex])

C4_NoTurnAfterWin ==
    [][WonAtTurnEnd => (WonAtTurnEnd' /\ UNCHANGED <<players, marketDeck>>)]_vars

C4_Witness == gameOver /\ pc = "done" /\ i < MaxSteps /\ WonAtTurnEnd

\* C5: the red cards of the non-active players that activate are paid by
\* the active player: what the owners receive for them is what the active
\* player loses, min(due, balance) in all, nothing from the bank
C5_RedIsPaidByActive ==
    AfterIncome =>
        /\ SumSet(Others, [p \in Others |-> RedReceived(p)]) = PaidOut
        /\ PaidOut = Min(SumSet(Others, [p \in Others |-> RedDue(p)]), BalanceAtRed)

\* C6: the active player is credited exactly the income of the own green
\* and blue cards that activate; own red cards add nothing
C6_ActiveGreenBlueOnly ==
    AfterIncome =>
        Delta(Active) = ColorIncome(pre.players[Active], Total, {"green", "blue"})

\* C7: every non-active player gets from the bank exactly the income of
\* the own blue cards that activate (what the seat gained, less what the
\* active player paid out)
C7_OthersBlueFromBank ==
    AfterIncome =>
        SumSet(Others, [p \in Others |-> Delta(p)]) - PaidOut
            = SumSet(Others, [p \in Others |->
                                ColorIncome(pre.players[p], Total, {"blue"})])

\* C8: every activated card copy pays base income + multiplier * count of
\* the kind + 1 under Shopping Center for bread and coffee; 2 cows and one
\* Cheese Factory pay 6 on a 7
PaidColors(p) ==
    IF p = Active THEN {"green", "blue", "red", "purple"} ELSE {"blue", "red"}

CowExample(p) ==
    /\ Total = 7
    /\ KindCount(pre.players[p], "cow") = 2
    /\ getEstablishmentCount(pre.players[p], "Cheese Factory") = 1

C8_PerCardIncomeFormula ==
    AfterIncome =>
        /\ \A p \in Seat :
             Delta(p) = ColorIncome(pre.players[p], Total, PaidColors(p))
        /\ CowExample(Active) => Delta(Active) = 6

C8_Witness ==
    /\ AfterIncome
    /\ CowExample(Active)
    /\ Delta(Active) = 6

\* C9: purple cards add nothing to any player's income: the money after
\* income resolution is what it would be without the purple cards
withoutPurple(player) ==
    [player EXCEPT !.establishments =
        SelectSeq(@, LAMBDA e : getEstablishment(e[1]).color # "purple")]

C10_SequentialDraw ==
    AfterIncome =>
        LET n == Cardinality(Seat)
            draws == DrawInOrder(SeatsAfter(Active + 1, n, 0), BalanceAtRed)
        IN \A k \in 1..Len(draws) :
             draws[k][1] # Active => RedReceived(draws[k][1]) = draws[k][2]

(***************************************************************************)
(* Special abilities                                                       *)
(***************************************************************************)
AbilityMarks == {"Stadium", "TV Center", "swap"}
AbilityCard(mark) == IF mark = "swap" THEN "Business Center" ELSE mark

\* the last operation was a special ability taking effect
AfterAbility == last \in AbilityMarks

StadiumDue(p) == Min(2, pre.players[p].money)

StadiumExample ==
    /\ Cardinality(Others) = 2
    /\ {pre.players[p].money : p \in Others} = {1, 10}

C12_StadiumTakesTwoFromEach ==
    last = "Stadium" =>
        /\ \A p \in Others : players[p].money = pre.players[p].money - StadiumDue(p)
        /\ Delta(Active) = SumSet(Others, [p \in Others |-> StadiumDue(p)])
        /\ \A p \in Seat :
             /\ players[p].establishments = pre.players[p].establishments
             /\ players[p].landmarks = pre.players[p].landmarks
        /\ StadiumExample =>
             /\ Delta(Active) = 3
             /\ {players[p].money : p \in Others} = {0, 8}

C12_Witness ==
    /\ last = "Stadium"
    /\ StadiumExample
    /\ Delta(Active) = 3

\* C13: TV Center takes min(5, money) from the other player with the most
\* money, the first of them in seat order when several tie, and credits
\* the active player exactly that amount
MostMoney == CHOOSE m \in {pre.players[p].money : p \in Others} :
                 \A p \in Others : pre.players[p].money <= m

Richest == {p \in Others : pre.players[p].money = MostMoney}

TVPayer == CHOOSE p \in Richest : \A q \in Richest : p <= q

SwapCalled == last = "swap" /\ answer.call = "swap" /\ answer.card # ""
Target == answer.otherPlayerIndex
\* the active player of the turn the trade was made in
Trader == pre.active
Count(ps, p, c) == getEstablishmentCount(ps[p], c)

CountsUnchanged ==
    \A p \in Seat : \A c \in EstablishmentNames :
        Count(players, p, c) = Count(pre.players, p, c)

\* the validations of a forced trade, on the state before it
SwapInvalid ==
    \/ getEstablishment(answer.card).color = "purple"
    \/ getEstablishment(answer.take).color = "purple"
    \/ Count(pre.players, Trader, answer.card) = 0
    \/ (Target \in Seat /\ Count(pre.players, Target, answer.take) = 0)

Moved(p, c) ==
      (IF p = Target /\ c = answer.card THEN 1 ELSE 0)
    + (IF p = Trader /\ c = answer.take THEN 1 ELSE 0)
    - (IF p = Trader /\ c = answer.card THEN 1 ELSE 0)
    - (IF p = Target /\ c = answer.take THEN 1 ELSE 0)

C15_SwapMovesOneEachWay ==
    (SwapCalled /\ result = "swapped") =>
        /\ Target \in Seat
        /\ \A p \in Seat :
             /\ \A c \in EstablishmentNames :
                  Count(players, p, c) = Count(pre.players, p, c) + Moved(p, c)
             /\ players[p].money = pre.players[p].money
             /\ players[p].landmarks = pre.players[p].landmarks
        /\ marketDeck = pre.market

C15_Witness ==
    /\ SwapCalled
    /\ result = "swapped"
    /\ Target # Trader
    /\ Count(players, Target, answer.card) = Count(pre.players, Target, answer.card) + 1
    /\ Count(players, Trader, answer.take) = Count(pre.players, Trader, answer.take) + 1

(***************************************************************************)
(* Purchases                                                               *)
(***************************************************************************)
\* the strategy answered a card (not null) and PurchaseService.purchase ran
PurchaseCalled == last = "purchase" /\ answer.call = "buy" /\ answer.card # "none"
Buyer == pre.active
Bought == answer.card
BuyerBefore == pre.players[Buyer]
CostOf(name) ==
    IF name \in EstablishmentNames THEN getEstablishment(name).cost
    ELSE getLandmark(name).cost

\* the four rejections, on the state before the purchase
InsufficientFunds == BuyerBefore.money < CostOf(Bought)
OutOfStock == Bought \in EstablishmentNames /\ pre.market[Bought] = 0
OwnedSingular ==
    /\ Bought \in {"Stadium", "TV Center", "Business Center"}
    /\ getEstablishmentCount(BuyerBefore, Bought) > 0
AlreadyBuilt == Bought \in LandmarkNames /\ Bought \in SeqToSet(BuyerBefore.landmarks)
Rejected == InsufficientFunds \/ OutOfStock \/ OwnedSingular \/ AlreadyBuilt

NothingChanged == players = pre.players /\ marketDeck = pre.market

\* C16: a purchase rejected for insufficient funds, out-of-stock, an owned
\* singular card or a built landmark does not throw, returns a failure and
\* leaves players and market as they were
C16_RejectedPurchaseChangesNothing ==
    (PurchaseCalled /\ Rejected) =>
        /\ result \notin {"purchased", "built"}
        /\ pc # "thrown" /\ error = ""
        /\ NothingChanged

C16_Witness ==
    /\ PurchaseCalled
    /\ OutOfStock
    /\ NothingChanged

\* C17: a purchase that is not rejected succeeds and debits the buyer
\* exactly the cost; an establishment moves one copy from the market to the
\* buyer, a landmark is built and the market is untouched; nothing else
\* changes
C17_PurchaseDebitsCostAndDelivers ==
    (PurchaseCalled /\ ~Rejected) =>
        /\ result \in {"purchased", "built"}
        /\ players[Buyer].money = BuyerBefore.money - CostOf(Bought)
        /\ \A p \in Seat \ {Buyer} : players[p] = pre.players[p]
        /\ \A c \in EstablishmentNames :
             /\ Count(players, Buyer, c)
                  = Count(pre.players, Buyer, c) + (IF c = Bought THEN 1 ELSE 0)
             /\ marketDeck[c] = pre.market[c] - (IF c = Bought THEN 1 ELSE 0)
        /\ SeqToSet(players[Buyer].landmarks)
             = SeqToSet(BuyerBefore.landmarks) \cup ({Bought} \cap LandmarkNames)

C17_Witness ==
    /\ PurchaseCalled
    /\ Bought = "Cafe"
    /\ result = "purchased"
    /\ marketDeck["Cafe"] = pre.market["Cafe"] - 1
    /\ players[Buyer].money = BuyerBefore.money - 2

\* C18: no player ever owns more than one copy of a singular card
C18_AtMostOneSingular ==
    \A p \in Seat : \A c \in EstablishmentNames :
        getEstablishment(c).isSingular => getEstablishmentCount(players[p], c) <= 1

C18_Witness ==
    /\ PurchaseCalled
    /\ OwnedSingular
    /\ ~InsufficientFunds
    /\ result = "already_own_singular"

(***************************************************************************)
(* Dice                                                                    *)
(***************************************************************************)
HoldsTerminal == hasLandmark(players[Active], "Terminal")

\* the first roll of the turn has been made and no later answer was given
AfterRoll == answer.call = "roll"

C20_RerollUnderTerminalConstraint ==
    (answer.call = "reroll" /\ answer.dice # 0) =>
        /\ ~HoldsTerminal => Len(rolls) = 1
        /\ Len(rolls) = 2 => HoldsTerminal

(***************************************************************************)
(* Bonus roll                                                              *)
(***************************************************************************)
\* the roll the turn resolved first: DiceRoll.of(rolls.slice(0, numDice))
FirstResolved == slice(rolls, numDice)

C22_NoBonusChain ==
    /\ [](resolutions <= 2)
    /\ [](bonus => resolutions = 2)
    /\ [][(answer'.call = "reroll" /\ answer' # answer) => resolutions = 0]_vars

C22_Witness ==
    /\ pc = "buy"
    /\ resolutions = 2
    /\ Len(diceRoll.dice) = 2
    /\ diceRoll.dice[1] = diceRoll.dice[2]
    /\ diceRoll.dice # rolls

(***************************************************************************)
(* Money                                                                   *)
(***************************************************************************)
\* C23: over every run of the engine (income, Stadium and TV Center,
\* trades, purchases) the money of every player is an integer >= 0
C23_MoneyNeverNegative ==
    \A p \in Seat : players[p].money \in Nat

\* a player asked for more than the balance ends at 0
C23_Witness ==
    /\ last = "Stadium"
    /\ \E p \in Others : pre.players[p].money = 1 /\ players[p].money = 0

(***************************************************************************)
(* MarketDeck                                                              *)
(***************************************************************************)
\* a purchase was tried on a card the market had none of
UnavailableTried ==
    /\ last = "market.purchase"
    /\ getAvailableQuantity(pre.market, answer.card) = 0

\* C24: over any sequence of purchase and restock calls every quantity is
\* >= 0 and equals the initial quantity plus what was restocked minus the
\* successful purchases; a purchase of an unavailable card changes nothing
\* and returns no card
C24_MarketLedgerBalances ==
    /\ \A c \in EstablishmentNames :
         /\ getAvailableQuantity(marketDeck, c) >= 0
         /\ getAvailableQuantity(marketDeck, c)
              = ledger.initial[c] + ledger.restocked[c] - ledger.purchased[c]
    /\ UnavailableTried => (marketDeck = pre.market /\ result = "undefined")
    /\ (last = "market.purchase" /\ ~UnavailableTried) => result = "card"

\* a card restocked, sold out again, and asked for once more
C24_Witness ==
    /\ UnavailableTried
    /\ result = "undefined"
    /\ ledger.restocked[answer.card] > 0
    /\ ledger.purchased[answer.card] > 0

(***************************************************************************)
(* Landmarks and the win                                                   *)
(***************************************************************************)
LandmarkSet(player) == SeqToSet(player.landmarks)

\* buildLandmark was called on a seat, for a landmark it had or had not
BuildCalled == last = "buildLandmark"
Builder == answer.otherPlayerIndex
Rebuilt == BuildCalled /\ answer.card \in LandmarkSet(pre.players[Builder])

\* C25: over any sequence of buildLandmark calls, in any order and with
\* duplicates, hasWon() holds exactly when the landmark set has 4 members;
\* a call adds the landmark to the set and nothing else, and a call for a
\* built landmark leaves the set unchanged
C25_WonIffFourLandmarks ==
    /\ \A p \in Seat :
         hasWon(players[p]) <=> Cardinality(LandmarkSet(players[p])) = 4
    /\ BuildCalled =>
         LandmarkSet(players[Builder])
            = LandmarkSet(pre.players[Builder]) \cup {answer.card}
    /\ Rebuilt => players = pre.players

\* a player who started without landmarks has built the four, Terminal
\* last, and then one of them again
C25_Witness ==
    /\ Rebuilt
    /\ hasWon(players[Builder])
    /\ players[Builder].landmarks[4] = "Terminal"
    /\ players[Builder].landmarks[1] = "Radio Tower"
    /\ answer.card = "Radio Tower"

(***************************************************************************)
(* The Game aggregate                                                      *)
(***************************************************************************)
\* C26: however the Game was made and whatever start() and endTurn() calls
\* followed, currentPlayerIndex is a seat: 0 <= currentPlayerIndex < playerCount
C26_CurrentPlayerIndexValid ==
    /\ currentPlayerIndex >= 0
    /\ currentPlayerIndex < Cardinality(DOMAIN players)

\* a step that is a call of game.endTurn() / game.start()
EndTurnCall == GameEndTurn \/ NextTurn
StartCall == GameStart \/ RunGame

GameFields == <<status, currentPlayerIndex, winner>>

\* C27: endTurn() for a current player who has not won moves
\* currentPlayerIndex to the next seat modulo the player count and changes
\* nothing else of the game; the index changes in no other way, so turn k
\* of a run (counted from 0) is played by seat k mod playerCount
C27_TurnsInSeatingOrder ==
    /\ [][(EndTurnCall /\ status = "in_progress"
              /\ ~hasWon(players[currentPlayerIndex]))
           => /\ currentPlayerIndex'
                   = (currentPlayerIndex + 1) % Cardinality(DOMAIN players)
              /\ UNCHANGED <<players, marketDeck, status, winner, lastDiceRoll>>]_vars
    /\ [][currentPlayerIndex' # currentPlayerIndex
           => (EndTurnCall /\ status = "in_progress")]_vars
    /\ [](pc \in MidTurn =>
            currentPlayerIndex = (turns - 1) % Cardinality(DOMAIN players))

\* the second turn of a run is under way, played by seat 1
C27_Witness ==
    /\ pc \in MidTurn
    /\ turns = 2
    /\ currentPlayerIndex = 1
    /\ ~hasWon(players[0])

\* C28: start() on a game that is not waiting throws, endTurn() on a game
\* that is not in progress throws, and neither changes status,
\* currentPlayerIndex or winner
C28_GuardedCallsChangeNothing ==
    [][/\ (StartCall /\ status # "waiting")
          => (error' = "Game has already started" /\ UNCHANGED GameFields)
       /\ (EndTurnCall /\ status # "in_progress")
          => (error' = "Game is not in progress" /\ UNCHANGED GameFields)]_vars

\* endTurn() was refused on a finished game
C28_Witness ==
    /\ status = "finished"
    /\ winner = currentPlayerIndex
    /\ error = "Game is not in progress"

(***************************************************************************)
(* Games run side by side                                                  *)
(***************************************************************************)
\* the strategy the game of session g registered for the player of its turn
OwnStrategy(g) == sessions[g].mine[sessions[g].game.currentPlayerIndex]

\* a turn of session g is under way
InTurn(g) == sessions[g].pc \in {"roll", "buy"}

\* C29: games run side by side share nothing: the player of every turn is
\* driven by the strategy its own game registered for it, and a game that
\* has ended is in the state it ends in when it runs with no game beside it
C29_GamesShareNoState ==
    \A g \in Games :
        /\ InTurn(g) => sessions[g].strategy = OwnStrategy(g)
        /\ sessions[g].pc = "done"
              => sessions[g].game = alone(sessions[g].mine, sessions[g].dice).game

(***************************************************************************)
(* Serialization                                                           *)
(***************************************************************************)
\* C30: reading back the serialized form of a Game gives a Game whose
\* serialized form is the same: players (money, establishments,
\* landmarks), market quantities, currentPlayerIndex, status, winner id
\* and last dice roll
C30_SerializationRoundTrip ==
    toJSON(fromJSON(toJSON(TheGame))) = toJSON(TheGame)

\* a finished game with a winner, a dice roll and landmarks was read back
C30_Witness ==
    /\ last = "fromJSON"
    /\ status = "finished"
    /\ winner # NoWinner
    /\ toJSON(TheGame).winner = playerId(winner)
    /\ lastDiceRoll = DiceRollOf(<<2, 3>>)
    /\ Len(players[winner].landmarks) = 4
    /\ \E p \in DOMAIN players : getEstablishmentCount(players[p], "Cafe") = 2

(***************************************************************************)
(* The roll after a reroll                                                 *)
(***************************************************************************)
\* the income of the first resolution of the turn has just been resolved,
\* after the strategy answered reroll with a count
AfterReroll ==
    /\ last = "income"
    /\ pc = "special"
    /\ resolutions = 1
    /\ answer.call = "reroll"
    /\ answer.dice # 0

\* C31: after a reroll the roll resolved for income and special abilities
\* is the fresh roll alone: it has the dice of the reroll, as many as the
\* strategy asked for, and its total is their sum
C31_RerollReplacesRoll ==
    AfterReroll =>
        /\ diceRoll.dice = rolls
        /\ Len(diceRoll.dice) = answer.dice
        /\ diceRoll.total = SumSeq(rolls)

(***************************************************************************)
(* Every step of a turn awaited                                            *)
(***************************************************************************)
\* the remodeled engine asks strategy.buy, or has asked and checks the win
AtPurchase == pc \in {"buy", "bought", "wincheck"}

\* the original engine has called strategy.buy, or has made the purchase
\* and the win check of the turn
OldAtPurchase == state.last \in {"strategy.buy", "answered", "buy"}

\* C32: when the strategy is asked for a purchase, and when the win check
\* is made, nothing of the turn's rolls is left to resolve: in the
\* remodeled engine no purple card and no bonus roll is outstanding, in the
\* original engine no part of a process is pending
C32_ResolvedBeforePurchase ==
    /\ AtPurchase =>
          /\ purpleCards = <<>>
          /\ ~bonusRollDue(players[currentPlayerIndex], rolls, numDice, bonus)
    /\ OldAtPurchase => state.pending = <<>>

(***************************************************************************)
(* The original and the remodeled engine on the same turns                 *)
(***************************************************************************)
\* both engines have made the purchase of the turn and stand at its win
\* check
TurnEnded == state.last = "buy" /\ pc = "wincheck"

\* C39: on the same seating, dice and strategy answers the two engines end
\* every turn with the same money, establishments and landmarks of every
\* player and the same quantities in the market
C39_EnginesAgree == TurnEnded => Alike(players, marketDeck, state)

(***************************************************************************)
(* A forced trade with a target that is no seat                            *)
(***************************************************************************)
\* C33: a forced-trade decision whose otherPlayerIndex is no seat of the
\* game does not throw: swapCards returns a failure, no establishment count
\* changes, and the turn goes on
C33_InvalidTargetRejected ==
    (SwapCalled /\ Target \notin Seat) =>
        /\ error = ""
        /\ pc # "thrown"
        /\ result # "swapped"
        /\ CountsUnchanged

(***************************************************************************)
(* The reason of an out-of-stock purchase                                  *)
(***************************************************************************)
\* C34: the purchase of an establishment whose market quantity is 0 fails
\* with the out-of-stock reason
C34_OutOfStockReason ==
    (PurchaseCalled /\ OutOfStock) => result = "out_of_stock"

(***************************************************************************)
(* Money's clamp                                                           *)
(***************************************************************************)
TotalMoney(ps) == SumSet(DOMAIN ps, [p \in DOMAIN ps |-> ps[p].money])

\* C35: no removal of money asks for more than the payer has, so the clamp
\* of Money.subtract never takes effect: Stadium and TV Center hand over
\* exactly what they take (the players' total is unchanged), income takes
\* from nobody, and a purchase is paid in full by a buyer who had the cost
C35_ClampNeverTakesEffect ==
    /\ last \in {"Stadium", "TV Center"} =>
          TotalMoney(players) = TotalMoney(pre.players)
    /\ last = "income" =>
          \A p \in Seat : players[p].money >= pre.players[p].money
    /\ (PurchaseCalled /\ result \in {"purchased", "built"}) =>
          /\ BuyerBefore.money >= CostOf(Bought)
          /\ players[Buyer].money = BuyerBefore.money - CostOf(Bought)

\* TV Center took the last coins of a player who had fewer than 5
C35_Witness ==
    /\ last = "TV Center"
    /\ \E p \in Others :
         /\ pre.players[p].money \in 1..4
         /\ players[p].money = 0
         /\ players[Active].money = pre.players[Active].money + pre.players[p].money

(***************************************************************************)
(* Conservation of the establishment cards                                 *)
(***************************************************************************)
\* the copies of a card in a game: in the market and with the players
CopiesInGame(ps, m, c) ==
    getAvailableQuantity(m, c)
      + SumSet(DOMAIN ps, [p \in DOMAIN ps |-> getEstablishmentCount(ps[p], c)])

\* the copies of a card in the State of the original engine
CopiesInState(st, c) ==
    st.deck[c]
      + SumSet(DOMAIN st.players,
               [p \in DOMAIN st.players |-> entryOf(st.players[p].deck, c)])

\* C36: over a run the copies of every establishment, market and players
\* together, stay the same number, and no count is negative, in the
\* remodeled engine and in the original one
C36_CardsConserved ==
    /\ [](\A c \in EstablishmentNames :
            /\ getAvailableQuantity(marketDeck, c) >= 0
            /\ \A p \in Seat : getEstablishmentCount(players[p], c) >= 0
            /\ state.deck[c] >= 0
            /\ \A p \in DOMAIN state.players : entryOf(state.players[p].deck, c) >= 0)
    /\ [][\A c \in EstablishmentNames :
            /\ CopiesInGame(players', marketDeck', c) = CopiesInGame(players, marketDeck, c)
            /\ CopiesInState(state', c) = CopiesInState(state, c)]_vars

\* a forced trade and a purchase have both moved cards
C36_Witness ==
    \/ /\ SwapCalled /\ result = "swapped"
       /\ Count(players, Trader, answer.take) = Count(pre.players, Trader, answer.take) + 1
    \/ /\ PurchaseCalled /\ result = "purchased"
       /\ marketDeck[Bought] = pre.market[Bought] - 1

(***************************************************************************)
(* The recorded winner                                                     *)
(***************************************************************************)
\* C37: in every Game made by Game.create, run by the engine and saved and
\* loaded again, a winner is recorded exactly if the status is
\* finished, and the recorded winner is a player of the game, holds the
\* four landmarks and is the current player
C37_WinnerIffFinished ==
    /\ winner # NoWinner <=> status = "finished"
    /\ winner # NoWinner =>
          /\ winner \in Seat
          /\ hasWon(players[winner])
          /\ winner = currentPlayerIndex

\* a finished game has been loaded again with its winner
C37_Witness ==
    /\ last = "fromJSON"
    /\ status = "finished"
    /\ winner = currentPlayerIndex
    /\ hasWon(players[winner])

(***************************************************************************)
(* The purchase decision of the simple strategy                            *)
(***************************************************************************)
\* C38: asking the simple strategy for a purchase decision only returns
\* the decision: the call leaves the players (money, landmarks,
\* establishments) and the market as they were
C38_BuyOnlyDecides ==
    last = "strategy.buy" =>
        /\ players = pre.players
        /\ marketDeck = pre.market

====
